---- MODULE Spec2Model ----
(***************************************************************************)
(* Model of the role resolution and route protection of the core library:  *)
(* RolesService (role list cache, reverse index, loading flag), RoleGuard, *)
(* the role accessors of AuthService and the menu item check of            *)
(* MenuService.                                                            *)
(*                                                                         *)
(* Strings of the program are TLA+ strings; URLs are sequences of          *)
(* one-character strings so that String.startsWith is a sequence prefix.   *)
(* An InternalRole is modelled by its name and keycloakRoles; displayName  *)
(* and description are never read by the code modelled here.               *)
(***************************************************************************)
EXTENDS Integers, Sequences, FiniteSets, TLC

(* ------------------------------------------------------------------ *)
(* Bounds of the model                                                 *)
(* ------------------------------------------------------------------ *)
MaxRoleListLen == 1
MaxStale == 1
MaxEnsureCalls == 2
MaxGuardCalls == 1
MaxKcLen == 2
MaxReqLen == 2
MaxMapListLen == 2

(* ------------------------------------------------------------------ *)
(* Values                                                              *)
(* ------------------------------------------------------------------ *)
\* a value of route data: undefined, a string[] or, by a slip of the route
\* configuration, a non-empty string where the string[] should be
Undefined == [k |-> "undefined", v |-> << >>]
Arr(v) == [k |-> "array", v |-> v]
Malformed == [k |-> "string", v |-> << >>]

\* the session storage entry 'user_roles_cache': absent or a parsed role list
StorageNull == [has |-> FALSE, roles |-> << >>]
Stored(roles) == [has |-> TRUE, roles |-> roles]

ADMIN_ROLE == "admin"

Stages == {"DEV", "MOCK"}

Range(s) == {s[i] : i \in DOMAIN s}

SeqsUpTo(S, n) == UNION {[1..m -> S] : m \in 0..n}

\* the role mapping records a provider fetch may deliver
RoleRecs ==
    { [name |-> "admin", keycloakRoles |-> <<"k1">>],
      [name |-> "r1", keycloakRoles |-> <<"k1", "k2">>] }

RoleLists == SeqsUpTo(RoleRecs, MaxRoleListLen)

\* role strings the identity provider may put into a token
KeycloakRoleNames == {"k1", "k2", "r1"}

KcRoleSeqs == SeqsUpTo(KeycloakRoleNames, MaxKcLen)

(* ------------------------------------------------------------------ *)
(* RolesService: pure helpers                                          *)
(* ------------------------------------------------------------------ *)
EmptyMap == << >>

MapHas(m, k) == k \in DOMAIN m

\* one iteration of the inner forEach: has / set / get(...).push
IndexPush(m, k, name) ==
    IF MapHas(m, k)
    THEN [m EXCEPT ![k] = Append(@, name)]
    ELSE (k :> <<name>>) @@ m

RECURSIVE IndexRole(_, _, _, _)
IndexRole(m, name, kcs, i) ==
    IF i > Len(kcs) THEN m
    ELSE IndexRole(IndexPush(m, kcs[i], name), name, kcs, i + 1)

RECURSIVE IndexRoles(_, _, _)
IndexRoles(m, roles, i) ==
    IF i > Len(roles) THEN m
    ELSE IndexRoles(IndexRole(m, roles[i].name, roles[i].keycloakRoles, 1), roles, i + 1)

\* roleMappingCache.clear() followed by the two nested forEach loops
buildRoleMappingCache(internalRoles) == IndexRoles(EmptyMap, internalRoles, 1)

getFallbackRoles == << [name |-> ADMIN_ROLE, keycloakRoles |-> << >>] >>

\* Set.add on the insertion-ordered Set<string>
SetAdd(s, x) == IF x \in Range(s) THEN s ELSE Append(s, x)

RECURSIVE SetAddAll(_, _, _)
SetAddAll(s, xs, i) ==
    IF i > Len(xs) THEN s ELSE SetAddAll(SetAdd(s, xs[i]), xs, i + 1)

RECURSIVE MapLookupAll(_, _, _, _)
MapLookupAll(index, kcs, i, acc) ==
    IF i > Len(kcs) THEN acc
    ELSE MapLookupAll(index, kcs, i + 1,
                      IF MapHas(index, kcs[i]) THEN SetAddAll(acc, index[kcs[i]], 1) ELSE acc)

\* faulty variant: only the first provider role is looked up
MapLookupFirstOnly(stg, index, keycloakRoles) ==
    IF stg = "MOCK" THEN <<ADMIN_ROLE>>
    ELSE IF Len(keycloakRoles) = 0 THEN << >>
    ELSE MapLookupAll(index, SubSeq(keycloakRoles, 1, 1), 1, << >>)

\* the value mapKeycloakRolesToInternalRoles returns (Array.from of the Set)
MapResult(stg, index, keycloakRoles) ==
    IF stg = "MOCK" THEN <<ADMIN_ROLE>>
    ELSE IF Len(keycloakRoles) = 0 THEN << >>
    ELSE MapLookupAll(index, keycloakRoles, 1, << >>)

(* ------------------------------------------------------------------ *)
(* AuthService: role accessors                                         *)
(* ------------------------------------------------------------------ *)
\* keycloakInstance?.resourceAccess: absent, or the roles of this client
NoAccess == [present |-> FALSE, roles |-> << >>]
Access(roles) == [present |-> TRUE, roles |-> roles]

\* AuthService.getRoles: the client roles of the token, unmapped
getRoles(access) == IF access.present THEN access.roles ELSE << >>

(* ------------------------------------------------------------------ *)
(* RolesService.checkRouteAccess                                       *)
(* ------------------------------------------------------------------ *)
IsPrefix(p, s) == Len(p) <= Len(s) /\ SubSeq(s, 1, Len(p)) = p

\* the injected ROLES_CONFIG.ROUTE_ROLE_MAPPINGS of the modelled application
ROUTE_ROLE_MAPPINGS ==
    { [route |-> <<"/">>, roles |-> << >>],
      [route |-> <<"/", "a">>, roles |-> <<"r1">>] }

\* RolesService.hasInternalRole
hasInternalRole(stg, index, keycloakRoles, targetInternalRole) ==
    targetInternalRole \in Range(MapResult(stg, index, keycloakRoles))

\* RolesService.isAdmin
isAdmin(stg, index, keycloakRoles) == hasInternalRole(stg, index, keycloakRoles, ADMIN_ROLE)

hasAnyInternalRole(stg, index, keycloakRoles, targetInternalRoles) ==
    LET internalRoles == MapResult(stg, index, keycloakRoles)
    IN \E i \in DOMAIN targetInternalRoles : targetInternalRoles[i] \in Range(internalRoles)

RequiredRolesFor(routePath) ==
    LET matches == {e \in ROUTE_ROLE_MAPPINGS : IsPrefix(e.route, routePath) /\ Len(e.route) > 0}
    IN IF matches = {} THEN << >>
       ELSE (CHOOSE e \in matches : \A f \in matches : Len(f.route) <= Len(e.route)).roles

checkRouteAccess(stg, index, keycloakRoles, routePath) ==
    LET requiredRoles == RequiredRolesFor(routePath)
    IN IF Len(requiredRoles) = 0 THEN TRUE
       ELSE hasAnyInternalRole(stg, index, keycloakRoles, requiredRoles)

(* ------------------------------------------------------------------ *)
(* RoleGuard                                                           *)
(* ------------------------------------------------------------------ *)
Grant == [t |-> "true", path |-> "", error |-> "", reason |-> ""]
UrlTree(error, reason) == [t |-> "UrlTree", path |-> "/dashboard", error |-> error, reason |-> reason]
\* a TypeError raised while the check runs
Throws == [t |-> "throw", path |-> "", error |-> "", reason |-> ""]
NoDecision == [t |-> "none", path |-> "", error |-> "", reason |-> ""]

Truthy(f) == f.k # "undefined"

\* x.some(role => userRoles.includes(role))
SomeIncluded(xs, userRoles) == \E i \in DOMAIN xs : xs[i] \in Range(userRoles)
\* faulty variant: one held role of allRoles is enough
EveryIncludedAsSome(xs, userRoles) == \E i \in DOMAIN xs : xs[i] \in Range(userRoles)

\* x.every(role => userRoles.includes(role))
EveryIncluded(xs, userRoles) == \A i \in DOMAIN xs : xs[i] \in Range(userRoles)

\* the user roles checkRouteDataRoles compares the route data with
GuardUserRoles(stg, access) ==
    IF stg = "MOCK" THEN <<ADMIN_ROLE>> \o getRoles(access) ELSE getRoles(access)

\* faulty variant: the required-role checks run before the exclusion check
checkRouteDataRolesRequiredFirst(stg, data, access) ==
    LET userRoles == GuardUserRoles(stg, access)
    IN IF ~Truthy(data.roles) /\ ~Truthy(data.allRoles) /\ ~Truthy(data.excludeRoles) THEN Grant
       ELSE IF data.allRoles.k = "string" \/ data.roles.k = "string" THEN Throws
       ELSE IF Truthy(data.allRoles) /\ Len(data.allRoles.v) > 0
               /\ ~EveryIncluded(data.allRoles.v, userRoles)
            THEN UrlTree("access-denied", "insufficient-roles")
       ELSE IF Truthy(data.roles) /\ Len(data.roles.v) > 0
               /\ SomeIncluded(data.roles.v, userRoles)
            THEN Grant
       ELSE IF Truthy(data.roles) /\ Len(data.roles.v) > 0
            THEN UrlTree("access-denied", "no-required-role")
       ELSE IF data.excludeRoles.k = "string" THEN Throws
       ELSE IF Truthy(data.excludeRoles) /\ SomeIncluded(data.excludeRoles.v, userRoles)
            THEN UrlTree("access-denied", "excluded-role")
       ELSE Grant

checkRouteDataRoles(stg, data, access) ==
    LET userRoles == GuardUserRoles(stg, access)
    IN IF ~Truthy(data.roles) /\ ~Truthy(data.allRoles) /\ ~Truthy(data.excludeRoles) THEN Grant
       ELSE IF data.excludeRoles.k = "string" THEN Throws
       ELSE IF Truthy(data.excludeRoles) /\ SomeIncluded(data.excludeRoles.v, userRoles)
            THEN UrlTree("access-denied", "excluded-role")
       ELSE IF data.allRoles.k = "string" THEN Throws
       ELSE IF Truthy(data.allRoles) /\ Len(data.allRoles.v) > 0
               /\ ~EveryIncluded(data.allRoles.v, userRoles)
            THEN UrlTree("access-denied", "insufficient-roles")
       ELSE IF data.roles.k = "string" THEN Throws
       ELSE IF Truthy(data.roles) /\ Len(data.roles.v) > 0
               /\ ~SomeIncluded(data.roles.v, userRoles)
            THEN UrlTree("access-denied", "no-required-role")
       ELSE Grant

\* faulty variant: a user without provider roles is checked like any other
GuardMapWithoutRolesCheck(stg, index, access, route) ==
    LET userRoles == getRoles(access)
        routeDataCheck == checkRouteDataRoles(stg, route.data, access)
    IN IF routeDataCheck # Grant THEN routeDataCheck
       ELSE IF checkRouteAccess(stg, index, userRoles, route.url) THEN Grant
       ELSE UrlTree("access_denied_insufficient_permissions", "")

\* the callback of map() in canActivate (non-mock)
GuardMap(stg, index, access, route) ==
    LET userRoles == getRoles(access)
        routeDataCheck == checkRouteDataRoles(stg, route.data, access)
    IN IF Len(userRoles) = 0 THEN UrlTree("access_denied_no_roles", "")
       ELSE IF routeDataCheck # Grant THEN routeDataCheck
       ELSE IF checkRouteAccess(stg, index, userRoles, route.url) THEN Grant
       ELSE UrlTree("access_denied_insufficient_permissions", "")

\* faulty variant: the pipe has no catchError
GuardCatchNothing(d) == d

\* catchError of canActivate: an error of the stream becomes a redirect
GuardCatchError(d) == IF d = Throws THEN UrlTree("guard_error", "") ELSE d

(* ------------------------------------------------------------------ *)
(* AuthService.getUserRoles and MenuService                            *)
(* ------------------------------------------------------------------ *)
NoCachedRoles == [has |-> FALSE, roles |-> << >>]

\* AuthService.getUserRoles: the value returned. cached is cachedUserRoles,
\* authenticated stands for isAuthenticated() with a parsed token, realmRoles and
\* clientRoles are the role arrays of the parsed token.
getUserRoles(stg, cached, authenticated, realmRoles, clientRoles, index) ==
    IF cached.has THEN cached.roles
    ELSE IF stg = "MOCK" THEN <<ADMIN_ROLE>>
    ELSE IF ~authenticated THEN << >>
    ELSE MapResult(stg, index, realmRoles \o clientRoles)

\* MenuService.getCurrentUserRoles
getCurrentUserRoles(stg, cached, authenticated, realmRoles, clientRoles, index) ==
    IF stg = "MOCK" THEN <<ADMIN_ROLE>>
    ELSE getUserRoles(stg, cached, authenticated, realmRoles, clientRoles, index)

\* MenuService.hasAccessToMenuItem for an item whose roles object is
\* {requiredRoles, requiredAllRoles, excludeRoles}
hasAccessToMenuItem(req, userRoles) ==
    IF Truthy(req.excludeRoles) /\ SomeIncluded(req.excludeRoles.v, userRoles) THEN FALSE
    ELSE IF Truthy(req.requiredAllRoles) /\ Len(req.requiredAllRoles.v) > 0
            /\ ~EveryIncluded(req.requiredAllRoles.v, userRoles) THEN FALSE
    ELSE IF Truthy(req.requiredRoles) /\ Len(req.requiredRoles.v) > 0
            /\ ~SomeIncluded(req.requiredRoles.v, userRoles) THEN FALSE
    ELSE TRUE

\* the menu item that states the requirements of a route's data
MenuItemRoleOf(data) ==
    [requiredRoles |-> data.roles, requiredAllRoles |-> data.allRoles,
     excludeRoles |-> data.excludeRoles]

(* ------------------------------------------------------------------ *)
(* State                                                               *)
(* ------------------------------------------------------------------ *)
VARIABLES
    stage,                \* EnvironmentService.stage
    access,               \* keycloakInstance.resourceAccess of the signed-in user
    initialized,          \* RolesService.initialized
    isLoadingMappings,    \* current value of isLoadingMappingsSubject
    internalRolesCache,   \* internalRolesCache$: null or a shareReplay(1) observable
    roleMappingCache,     \* Keycloak role -> internal role names
    storage,              \* session storage entry user_roles_cache
    staleFetches,         \* pending provider fetches of observables no longer cached
    ensureCalls,          \* the promises returned by ensureRolesLoaded, in call order
    guardCalls,           \* the canActivate calls, in call order
    lastMap,              \* a call of mapKeycloakRolesToInternalRoles that has not returned yet
    pIn,                  \* arguments of a call of one of the pure functions
    pOut                  \* what that call returned

svcVars == <<initialized, isLoadingMappings, internalRolesCache, roleMappingCache,
             storage, staleFetches>>

\* the banner, the HTTP interceptors and the services they write to
VARIABLES
    now,                  \* Date.now(), in ms
    bannerComponent,      \* BannerService.bannerComponent is set (the component is registered)
    bannerState,          \* AppBannerComponent.bannerState
    autoHideTimer,        \* AppBannerComponent.autoHideTimer: when it fires, or NoTimer
    timerQueue,           \* the timers set with setTimeout that are pending: when they fire
    errorLog,             \* the times of all registerError calls so far, oldest first
    errorsAtHide,         \* how many of them came before the last hide()
    apiMetadata,          \* ApiService.apiMetadata
    lastHttp              \* the last HTTP exchange the interceptors handled

httpVars == <<now, bannerComponent, bannerState, autoHideTimer, timerQueue, errorLog, errorsAtHide,
             apiMetadata, lastHttp>>

\* PreferencesService over the local storage of the browser
VARIABLES
    localStorage,         \* the entries user-preferences and preferences-version
    preferences,          \* current value of preferencesSubject
    loads,                \* how many times PreferencesService was constructed
    prefsOp               \* the last operation on the preferences

prefVars == <<localStorage, preferences, loads, prefsOp>>

\* AuthService and AuthGuard
VARIABLES
    keycloakEnv,          \* keycloakUrl, keycloakRealm, keycloakClientId of the environment
    auth,                 \* AuthService: initializedSource, useKeycloak, the SDK instance
    authGuardCalls        \* the AuthGuard.canActivate calls, in call order

authVars == <<keycloakEnv, auth, authGuardCalls>>

\* the session that AuthService keeps with the identity SDK
VARIABLES
    kc,                   \* the SDK instance: authenticated, token
    sess,                 \* AuthService: isAuthenticated$, userProfile$, accessToken$, cachedUserRoles
    promises,             \* the promises of SDK calls that have not ended yet
    expiries,             \* per token-expired event, what AuthService did about it
    lastAuthOp            \* the last step of AuthService and what it returned

sessionVars == <<kc, sess, promises, expiries, lastAuthOp>>

\* ApiLogService and the requests apiLoggingInterceptor is waiting for
VARIABLES
    apiLogs,              \* ApiLogService: the entries and the id counter
    logged                \* per request sent through apiLoggingInterceptor, its history

logVars == <<apiLogs, logged>>

\* AppLoadingService with the subscriber of isLoading$
VARIABLES
    loadingSources,       \* per source id: its observable, and its place in loadingSourcesMap
    forceLoadingState,    \* the value of the BehaviorSubject forceLoadingState
    appIsLoading          \* the last value of isLoading$

loadVars == <<loadingSources, forceLoadingState, appIsLoading>>

uiVars == <<httpVars, prefVars, authVars, sessionVars, logVars, loadVars>>

vars == <<stage, access, initialized, isLoadingMappings, internalRolesCache,
          roleMappingCache, storage, staleFetches, ensureCalls, guardCalls, lastMap,
          pIn, pOut, uiVars>>

\* internalRolesCache$ values
NullCache == [kind |-> "null", st |-> "none", val |-> << >>]
\* of(cachedRoles).pipe(shareReplay(1))
OfCache(roles) == [kind |-> "of", st |-> "value", val |-> roles]
\* fetchRoleMappings().pipe(shareReplay(1)): source pending, replaying a value,
\* or completed without a value
FetchCache(st, roles) == [kind |-> "fetch", st |-> st, val |-> roles]

\* what a provider fetch does when it ends
Emits(roles, saved) == [t |-> "emit", roles |-> roles, saved |-> saved]
Errors == [t |-> "error", roles |-> << >>, saved |-> FALSE]
CompletesEmpty == [t |-> "empty", roles |-> << >>, saved |-> FALSE]
\* the provider answers later, in a task of its own
Async == [t |-> "async", roles |-> << >>, saved |-> FALSE]

FetchOutcomes == {Emits(r, ok) : r \in RoleLists, ok \in BOOLEAN} \cup {Errors, CompletesEmpty}

\* the routes of the modelled application that RoleGuard protects
Routes ==
    { [url |-> <<"/">>, data |-> [roles |-> Undefined, allRoles |-> Undefined, excludeRoles |-> Undefined]],
      [url |-> <<"/", "a">>, data |-> [roles |-> Arr(<<"r1">>), allRoles |-> Undefined, excludeRoles |-> Arr(<<"k2">>)]],
      [url |-> <<"/", "b">>, data |-> [roles |-> Malformed, allRoles |-> Undefined, excludeRoles |-> Undefined]] }

UserAccess == {NoAccess, Access(<<"r1", "k1">>), Access(<<"k2", "r1">>)}

World ==
    [stage |-> stage, access |-> access, initialized |-> initialized,
     isLoading |-> isLoadingMappings, cache |-> internalRolesCache,
     index |-> roleMappingCache, storage |-> storage, stale |-> staleFetches,
     ensure |-> ensureCalls, guards |-> guardCalls]

Commit(w) ==
    /\ initialized' = w.initialized
    /\ isLoadingMappings' = w.isLoading
    /\ internalRolesCache' = w.cache
    /\ roleMappingCache' = w.index
    /\ storage' = w.storage
    /\ staleFetches' = w.stale
    /\ ensureCalls' = w.ensure
    /\ guardCalls' = w.guards
    /\ UNCHANGED <<stage, access, pIn, pOut, uiVars>>

(* ------------------------------------------------------------------ *)
(* The loading subject and its subscribers                             *)
(* ------------------------------------------------------------------ *)
\* take(1) of canActivate
GuardTake == 1

\* faulty variant: the guard lets every emission of the loading flag through
GuardFilterNone(isLoading) == TRUE

\* filter((isLoading) => !isLoading) of canActivate
GuardFilter(isLoading) == ~isLoading

\* filter((isLoading) => !isLoading) of ensureRolesLoaded
EnsureFilter(isLoading) == ~isLoading

\* one emission of isLoadingMappings$ reaching the pipe of a canActivate call
GuardOnNext(w, g, v) ==
    IF g.st = "waiting" /\ GuardFilter(v)
    THEN [g EXCEPT !.emits = @ + 1,
                   !.sawLoading = v,
                   !.decision = GuardCatchError(GuardMap(w.stage, w.index, w.access, g.route)),
                   !.st = IF g.emits + 1 >= GuardTake THEN "done" ELSE "waiting"]
    ELSE IF g.st = "waiting" THEN [g EXCEPT !.waited = TRUE]
    ELSE g

\* one emission reaching the subscriber of an ensureRolesLoaded promise
EnsureOnNext(e, v) == IF e = "waiting" /\ EnsureFilter(v) THEN "resolved" ELSE e

\* isLoadingMappingsSubject.next(v): the value is stored and every subscriber
\* runs before next returns
SubjectNext(w, v) ==
    [w EXCEPT !.isLoading = v,
              !.ensure = [i \in DOMAIN w.ensure |-> EnsureOnNext(w.ensure[i], v)],
              !.guards = [i \in DOMAIN w.guards |-> GuardOnNext(w, w.guards[i], v)]]

(* ------------------------------------------------------------------ *)
(* RolesService: operations                                            *)
(* ------------------------------------------------------------------ *)
\* saveRolesToStorage: setSession may fail (quota, storage disabled)
saveRolesToStorage(w, roles, saved) ==
    IF saved THEN [w EXCEPT !.storage = Stored(roles)] ELSE w

\* faulty variant: the fallback list of a failed fetch is saved like a fetched one
FetchEndsSavingFallback(w, o, current) ==
    LET tapped == IF o.t = "emit"
                  THEN saveRolesToStorage([w EXCEPT !.index = buildRoleMappingCache(o.roles)],
                                          o.roles, o.saved)
                  ELSE IF o.t = "error"
                  THEN saveRolesToStorage(w, getFallbackRoles, TRUE)
                  ELSE w
        replay == IF o.t = "emit" THEN FetchCache("value", o.roles)
                  ELSE IF o.t = "error" THEN FetchCache("value", getFallbackRoles)
                  ELSE FetchCache("empty", << >>)
        shared == IF current THEN [tapped EXCEPT !.cache = replay] ELSE tapped
    IN SubjectNext(shared, FALSE)

\* the provider fetch behind a fetchRoleMappings() observable ends with outcome o;
\* current says whether that observable is still the one in internalRolesCache$.
\* tap runs first, then shareReplay stores the value, then the first() subscriber
\* of loadRoleMappings sets the loading flag to false.
FetchEnds(w, o, current) ==
    LET tapped == IF o.t = "emit"
                  THEN saveRolesToStorage([w EXCEPT !.index = buildRoleMappingCache(o.roles)],
                                          o.roles, o.saved)
                  ELSE w
        replay == IF o.t = "emit" THEN FetchCache("value", o.roles)
                  ELSE IF o.t = "error" THEN FetchCache("value", getFallbackRoles)
                  ELSE FetchCache("empty", << >>)
        shared == IF current THEN [tapped EXCEPT !.cache = replay] ELSE tapped
    IN SubjectNext(shared, FALSE)

\* loadRoleMappings; o is what the provider does on subscription
loadRoleMappings(w, o) ==
    IF w.cache.kind = "null"
    THEN LET started == [SubjectNext(w, TRUE) EXCEPT !.cache = FetchCache("pending", << >>)]
         IN IF o = Async THEN started ELSE FetchEnds(started, o, TRUE)
    ELSE w

\* internalRolesCache$ is overwritten: a provider fetch that is still pending
\* behind the old observable stays subscribed and ends later
DropCache(w, newCache) ==
    [w EXCEPT !.cache = newCache,
              !.stale = IF w.cache.kind = "fetch" /\ w.cache.st = "pending" THEN @ + 1 ELSE @]

loadRolesFromStorage(w) == w.storage

initializeRoles(w, o) ==
    LET w1 == SubjectNext(w, TRUE)
        cachedRoles == loadRolesFromStorage(w1)
    IN IF cachedRoles.has /\ Len(cachedRoles.roles) > 0
       THEN SubjectNext([DropCache(w1, OfCache(cachedRoles.roles)) EXCEPT
                                   !.index = buildRoleMappingCache(cachedRoles.roles)],
                        FALSE)
       ELSE loadRoleMappings(w1, o)

\* ensureRolesLoaded: the executor of the promise runs at once; the subscriber
\* gets the current value of the BehaviorSubject on subscription
ensureRolesLoaded(w, o) ==
    LET w1 == IF ~w.initialized THEN initializeRoles([w EXCEPT !.initialized = TRUE], o) ELSE w
    IN [w1 EXCEPT !.ensure = Append(@, EnsureOnNext("waiting", w1.isLoading))]

getAvailableInternalRoles(w, o) ==
    IF w.cache.kind = "null" THEN loadRoleMappings(w, o) ELSE w

clearCache(w, o) ==
    loadRoleMappings([DropCache(w, NullCache) EXCEPT !.index = EmptyMap], o)

\* faulty variant: a lookup on an empty index starts loading the mappings
mapKeycloakRolesLazyLoad(w, keycloakRoles) ==
    [result |-> MapResult(w.stage, w.index, keycloakRoles),
     world |-> IF w.index = EmptyMap THEN getAvailableInternalRoles(w, Async) ELSE w]

\* mapKeycloakRolesToInternalRoles: the value returned and the state left behind
mapKeycloakRolesToInternalRoles(w, keycloakRoles) ==
    [result |-> MapResult(w.stage, w.index, keycloakRoles), world |-> w]

(* ------------------------------------------------------------------ *)
(* RoleGuard.canActivate                                               *)
(* ------------------------------------------------------------------ *)
NewGuard(route) ==
    [route |-> route, st |-> "waiting", emits |-> 0, sawLoading |-> FALSE,
     waited |-> FALSE, decision |-> NoDecision]

\* mock stage: the result of checkRouteDataRoles is returned (or its error thrown)
\* by canActivate itself; otherwise the pipe is subscribed and the BehaviorSubject
\* replays its current value into it
canActivate(w, route) ==
    IF w.stage = "MOCK"
    THEN LET d == checkRouteDataRoles(w.stage, route.data, w.access)
         IN [w EXCEPT !.guards = Append(@, [NewGuard(route) EXCEPT
                                              !.st = IF d = Throws THEN "threw" ELSE "done",
                                              !.emits = IF d = Throws THEN 0 ELSE 1,
                                              !.decision = d])]
    ELSE [w EXCEPT !.guards = Append(@, GuardOnNext(w, NewGuard(route), w.isLoading))]

(* ------------------------------------------------------------------ *)
(* AppBannerComponent and BannerService                                *)
(* ------------------------------------------------------------------ *)
\* an optional property of a config object: the key is missing, the key is there
\* with the value undefined, or it holds a value (booleans as 0 and 1)
Missing == [k |-> "missing", v |-> 0]
Undef == [k |-> "undefined", v |-> 0]
Val(v) == [k |-> "value", v |-> v]

DEFAULT_ERROR_THRESHOLD == 5
DEFAULT_TIME_WINDOW_MS == 10000

\* DEFAULT_CONFIGS[type]: autoHide, autoHideTimeout and closable
DEFAULT_CONFIGS(type) ==
    IF type = "error"
    THEN [autoHide |-> Val(1), autoHideTimeout |-> Val(60000), closable |-> Val(1)]
    ELSE IF type = "success"
    THEN [autoHide |-> Val(1), autoHideTimeout |-> Val(5000), closable |-> Val(1)]
    ELSE [autoHide |-> Val(0), autoHideTimeout |-> Missing, closable |-> Val(1)]

NoTimer == -1

NullConfig ==
    [type |-> "null", autoHide |-> Missing, autoHideTimeout |-> Missing, closable |-> Missing]

InitialBannerState ==
    [isVisible |-> FALSE, config |-> NullConfig, errorCount |-> 0, errorTimestamps |-> << >>]

\* the component with its clock: what the methods below read and write
Banner ==
    [now |-> now, state |-> bannerState, timer |-> autoHideTimer, log |-> errorLog,
     hidden |-> errorsAtHide, queue |-> timerQueue]

\* x in a condition: undefined, false and 0 are falsy
TruthyField(f) == f.k = "value" /\ f.v # 0

\* {...defaultConfig, ...config}: a key of config wins also when its value is undefined
Spread(default, field) == IF field.k = "missing" THEN default ELSE field

\* clearAutoHideTimer: clearTimeout takes the timer of the handle off the queue
clearAutoHideTimer(b) ==
    IF b.timer # NoTimer THEN [b EXCEPT !.queue = @ \ {b.timer}, !.timer = NoTimer] ELSE b

\* faulty variant: the new timer is set without clearing the pending one
setupAutoHideWithoutClear(b, config) ==
    IF TruthyField(config.autoHide) /\ TruthyField(config.autoHideTimeout)
    THEN [b EXCEPT !.timer = b.now + config.autoHideTimeout.v,
                   !.queue = @ \cup {b.now + config.autoHideTimeout.v}]
    ELSE b

\* setupAutoHide: the pending timer is cleared, a new one is set if configured
setupAutoHide(b, config) ==
    LET cleared == clearAutoHideTimer(b)
    IN IF TruthyField(config.autoHide) /\ TruthyField(config.autoHideTimeout)
       THEN [cleared EXCEPT !.timer = b.now + config.autoHideTimeout.v,
                            !.queue = @ \cup {b.now + config.autoHideTimeout.v}]
       ELSE cleared

show(b, config) ==
    LET defaultConfig == DEFAULT_CONFIGS(config.type)
        mergedConfig == [type |-> config.type,
                         autoHide |-> Spread(defaultConfig.autoHide, config.autoHide),
                         autoHideTimeout |-> Spread(defaultConfig.autoHideTimeout,
                                                    config.autoHideTimeout),
                         closable |-> Spread(defaultConfig.closable, config.closable)]
    IN setupAutoHide([b EXCEPT !.state.isVisible = TRUE, !.state.config = mergedConfig],
                     mergedConfig)

hide(b) == clearAutoHideTimer([b EXCEPT !.state = InitialBannerState, !.hidden = Len(b.log)])

\* config?.x ?? DEFAULT
OrDefault(field, default) == IF field.k = "value" THEN field.v ELSE default

\* config?.x as the value of a key of an object literal: the key is always there
KeyOf(field) == IF field.k = "value" THEN field ELSE Undef

\* faulty variant: a timestamp exactly one window old still counts
FilterWindowInclusive(ts, i, t, timeWindow) ==
    SelectSeq(ts, LAMBDA x : t - x <= timeWindow)

\* the timestamps that pass filter(now - timestamp < timeWindow), in order
RECURSIVE FilterWindow(_, _, _, _)
FilterWindow(ts, i, t, timeWindow) ==
    IF i > Len(ts) THEN << >>
    ELSE (IF t - ts[i] < timeWindow THEN <<ts[i]>> ELSE << >>)
             \o FilterWindow(ts, i + 1, t, timeWindow)

\* a call without argument
NoErrorConfig ==
    [errorThreshold |-> Missing, timeWindow |-> Missing, autoHide |-> Missing,
     autoHideTimeout |-> Missing, closable |-> Missing]

\* AppBannerComponent.registerError: the component left behind and the value returned
registerError(b, config) ==
    LET errorThreshold == OrDefault(config.errorThreshold, DEFAULT_ERROR_THRESHOLD)
        timeWindow == OrDefault(config.timeWindow, DEFAULT_TIME_WINDOW_MS)
        validTimestamps == Append(FilterWindow(b.state.errorTimestamps, 1, b.now, timeWindow),
                                  b.now)
        counted == [b EXCEPT !.state.errorCount = Len(validTimestamps),
                             !.state.errorTimestamps = validTimestamps,
                             !.log = Append(@, [t |-> b.now, w |-> timeWindow,
                                                n |-> errorThreshold,
                                                result |-> Len(validTimestamps) >= errorThreshold])]
        errorConfig == [type |-> "error", autoHide |-> KeyOf(config.autoHide),
                        autoHideTimeout |-> KeyOf(config.autoHideTimeout),
                        closable |-> KeyOf(config.closable)]
    IN IF Len(validTimestamps) >= errorThreshold
       THEN [banner |-> show(counted, errorConfig), result |-> TRUE]
       ELSE [banner |-> counted, result |-> FALSE]

\* the options of a caller that passes none
NoOptions == [autoHide |-> Missing, autoHideTimeout |-> Missing, closable |-> Missing]

\* {type, title, message, ...options}
WithOptions(type, options) ==
    [type |-> type, autoHide |-> options.autoHide, autoHideTimeout |-> options.autoHideTimeout,
     closable |-> options.closable]

\* showSuccess(title, message): no option given
showSuccess(b) == show(b, WithOptions("success", NoOptions))

\* showError(title, message, options)
showError(b, options) == show(b, WithOptions("error", options))

isActive(b) == b.state.isVisible

(* ------------------------------------------------------------------ *)
(* ApiService, apiInterceptor and errorInterceptor                     *)
(* ------------------------------------------------------------------ *)
\* strings that the code searches are sequences of characters
Contains(s, sub) ==
    \E i \in 0..(Len(s) - Len(sub)) : SubSeq(s, i + 1, i + Len(sub)) = sub

StartsWith(s, p) == IsPrefix(p, s)

ASSETS_PREFIX == <<"/", "a", "s", "s", "e", "t", "s">>
HTTP_PREFIX == <<"h", "t", "t", "p", ":", "/", "/">>
HTTPS_PREFIX == <<"h", "t", "t", "p", "s", ":", "/", "/">>
STATUS_403 == <<"/", "s", "t", "a", "t", "u", "s", "/", "4", "0", "3">>
STATUS_500 == <<"/", "s", "t", "a", "t", "u", "s", "/", "5", "0", "0">>

\* the URLs requested in the modelled application
ApiUrl == <<"/", "a", "p", "i", "/", "x">>
AssetUrl == <<"/", "a", "s", "s", "e", "t", "s", "/", "i">>
ExternalUrl == <<"h", "t", "t", "p", "s", ":", "/", "/", "e">>
StatusPageUrl == <<"/", "s", "t", "a", "t", "u", "s", "/", "4", "0", "3">>
StatusDataUrl == <<"/", "a", "p", "i", "/", "s", "t", "a", "t", "u", "s", "/", "5", "0", "0">>
RequestUrls == {ApiUrl, AssetUrl, ExternalUrl, StatusPageUrl, StatusDataUrl}

\* a value that is undefined (a property that is missing)
Absent == "undefined"

\* ApiService.apiMetadata: null or the meta object of a response
NullMeta == [isNull |-> TRUE, stage |-> Absent, session |-> Absent]
Meta(stg, session) == [isNull |-> FALSE, stage |-> stg, session |-> session]

setApiMetadata(meta) == meta

setSessionId(metadata, sessionId) ==
    IF ~metadata.isNull THEN [metadata EXCEPT !.session = sessionId] ELSE metadata

getSessionId(metadata) == IF metadata.isNull \/ metadata.session = Absent THEN "null" ELSE metadata.session

\* a response body: every property may be missing; errors is a list of entries
\* whose value is an array of messages, one message or something else
NoBodyMeta == [has |-> FALSE, stage |-> Absent, session |-> Absent]
BodyMeta(stg, session) == [has |-> TRUE, stage |-> stg, session |-> session]
Body(status, result, session, message, meta, data, errors) ==
    [isNull |-> FALSE, status |-> status, result |-> result, session |-> session,
     message |-> message, meta |-> meta, data |-> data, errors |-> errors]
NullBody == [Body(Absent, Absent, Absent, Absent, NoBodyMeta, Absent, << >>) EXCEPT !.isNull = TRUE]

\* what an interceptor did besides returning: toasts shown, routes navigated to
Toast(severity, text) == [severity |-> severity, text |-> text]

\* the toasts of the errors object, entry by entry
RECURSIVE ErrorToasts(_, _)
ErrorToasts(errors, i) ==
    IF i > Len(errors) THEN << >>
    ELSE (IF errors[i].kind = "array"
          THEN [j \in DOMAIN errors[i].msgs |-> Toast("error", errors[i].msgs[j])]
          ELSE IF errors[i].kind = "string" THEN <<Toast("error", errors[i].msgs[1])>>
          ELSE << >>)
         \o ErrorToasts(errors, i + 1)

\* faulty variant: a response without a stage counts as a mismatch
stageMismatchWithoutStage(clientStage, meta) == clientStage # meta.stage

\* meta.stage && clientStage !== meta.stage
stageMismatch(clientStage, meta) == meta.stage # Absent /\ clientStage # meta.stage

\* apiInterceptor on an HttpResponse event: the metadata left in ApiService, the
\* toasts and navigations, and the body of the event passed on
apiInterceptor(clientStage, metadata, request, body) ==
    IF StartsWith(request.url, ASSETS_PREFIX) \/ StartsWith(request.url, HTTP_PREFIX)
          \/ StartsWith(request.url, HTTPS_PREFIX)
    THEN [metadata |-> metadata, toasts |-> << >>, nav |-> << >>, body |-> body, unwrapped |-> "no"]
    ELSE IF ~body.isNull /\ body.result # Absent /\ body.status # Absent
    THEN [metadata |-> setSessionId(metadata, body.session),
          toasts |-> IF body.message # Absent /\ body.message # "" /\ ~request.suppressToasts
                     THEN <<Toast("info", body.message)>> ELSE << >>,
          nav |-> << >>,
          body |-> body.result, unwrapped |-> "result"]
    ELSE IF ~body.isNull /\ body.meta.has /\ body.data # Absent
    THEN [metadata |-> setApiMetadata(Meta(body.meta.stage, body.meta.session)),
          toasts |-> IF Len(body.errors) > 0 /\ ~request.suppressToasts
                     THEN ErrorToasts(body.errors, 1) ELSE << >>,
          nav |-> IF stageMismatch(clientStage, body.meta)
                  THEN <<"/status/500">> ELSE << >>,
          body |-> body.data, unwrapped |-> "data"]
    ELSE [metadata |-> metadata, toasts |-> << >>, nav |-> << >>, body |-> body, unwrapped |-> "no"]

\* faulty variant: the component is called whether it is registered or not
serviceRegisterErrorUnregistered(registered, b, config) == registerError(b, config)

\* BannerService.registerError: false when no banner component is registered
serviceRegisterError(registered, b, config) ==
    IF registered THEN registerError(b, config) ELSE [banner |-> b, result |-> FALSE]

serviceIsActive(registered, b) == IF registered THEN isActive(b) ELSE FALSE

\* what next(request) ends with when it fails
TimeoutError == [t |-> "timeout", status |-> 0, url |-> << >>]
HttpErrorResponse(status, url) == [t |-> "http", status |-> status, url |-> url]

\* faulty variant: the header of the request is not looked at
shouldToastIgnoringHeader(shouldSilence, suppressToasts) == ~shouldSilence

\* !shouldSilence && !suppressToasts
shouldToast(shouldSilence, suppressToasts) == ~shouldSilence /\ ~suppressToasts

\* faulty variant: the status pages are treated like any other URL
isStatusPageErrorNever(error) == FALSE

\* error.url && (error.url.includes('/status/403') || error.url.includes('/status/500'))
isStatusPageError(error) ==
    Len(error.url) > 0 /\ (Contains(error.url, STATUS_403) \/ Contains(error.url, STATUS_500))

\* errorInterceptor's catchError: the banner left behind, the toasts and
\* navigations, and the error thrown on to the caller
errorInterceptor(registered, b, request, error) ==
    IF error.t = "timeout"
    THEN LET r == serviceRegisterError(registered, b, NoErrorConfig)
         IN [banner |-> r.banner,
             toasts |-> IF shouldToast(r.result, request.suppressToasts)
                        THEN <<Toast("warn", "timeout")>> ELSE << >>,
             nav |-> << >>, thrown |-> "Request timed out."]
    ELSE IF isStatusPageError(error)
    THEN [banner |-> b, toasts |-> << >>, nav |-> << >>, thrown |-> "error"]
    ELSE IF error.status >= 500
    THEN LET r == serviceRegisterError(registered, b, NoErrorConfig)
         IN [banner |-> r.banner,
             toasts |-> IF shouldToast(r.result, request.suppressToasts)
                        THEN <<Toast("warn", "serverError")>> ELSE << >>,
             nav |-> << >>, thrown |-> "error"]
    ELSE [banner |-> b,
          toasts |-> IF error.status # 0 /\ error.status >= 400
                        /\ shouldToast(serviceIsActive(registered, b), request.suppressToasts)
                     THEN <<Toast("error", "msg")>> ELSE << >>,
          nav |-> IF error.status = 403 THEN <<"/status/403">> ELSE << >>,
          thrown |-> "error"]

\* no HTTP exchange handled yet
NoHttp ==
    [kind |-> "none", request |-> [url |-> << >>, suppressToasts |-> FALSE],
     body |-> NullBody, error |-> TimeoutError, toasts |-> << >>, nav |-> << >>,
     forwarded |-> Absent, unwrapped |-> "no", thrown |-> "", registered |-> FALSE]

\* the banner and the interceptors before anything happened
HttpIdle ==
    /\ now = 0
    /\ bannerComponent = FALSE
    /\ bannerState = InitialBannerState
    /\ autoHideTimer = NoTimer
    /\ timerQueue = {}
    /\ errorLog = << >>
    /\ errorsAtHide = 0
    /\ apiMetadata = NullMeta
    /\ lastHttp = NoHttp

(* ------------------------------------------------------------------ *)
(* BrowserStorageService and PreferencesService                       *)
(* ------------------------------------------------------------------ *)

\* the keys of the Preferences interface
PreferenceKeys ==
    {"language", "theme", "darkMode", "scale", "menuLayout", "autoDarkMode", "preset",
     "primaryColor", "surface", "fontSize", "testRole"}

\* a Preferences object: every key has the literal of its value, or Absent
EmptyObject == [k \in PreferenceKeys |-> Absent]

defaultPreferences ==
    [EmptyObject EXCEPT !["language"] = "", !["theme"] = "aura-light-orange",
                        !["darkMode"] = "false", !["scale"] = "14",
                        !["menuLayout"] = "horizontal", !["autoDarkMode"] = "false",
                        !["preset"] = "Aura", !["primaryColor"] = "orange",
                        !["surface"] = "slate", !["fontSize"] = "1rem"]

PREFERENCES_VERSION == 2

LOCAL_STORAGE_KEY == "user-preferences"
VERSION_KEY == "preferences-version"

\* { ...a, ...b } of two Preferences objects
SpreadObjects(a, b) == [k \in PreferenceKeys |-> IF b[k] # Absent THEN b[k] ELSE a[k]]

\* JavaScript values that pass through the storage service
JsNull == [t |-> "null", s |-> "", n |-> 0, o |-> EmptyObject]
JsString(s) == [t |-> "string", s |-> s, n |-> 0, o |-> EmptyObject]
JsNumber(n) == [t |-> "number", s |-> "", n |-> n, o |-> EmptyObject]
JsObject(o) == [t |-> "object", s |-> "", n |-> 0, o |-> o]

\* a === b for the values compared by the code (never two objects)
StrictEquals(a, b) == a.t = b.t /\ a.s = b.s /\ a.n = b.n

\* the decimal numerals of the version numbers
Numerals == <<"1", "2", "3", "4", "5", "6", "7", "8", "9">>

\* Number.prototype.toString
NumberToString(n) == Numerals[n]

IsNumeral(s) == \E n \in 1..Len(Numerals) : Numerals[n] = s

NumberOfNumeral(s) == CHOOSE n \in 1..Len(Numerals) : Numerals[n] = s

\* the text kept under a storage key: characters, or the JSON text of an object
Chars(s) == [json |-> "chars", chars |-> s, obj |-> EmptyObject]
ObjectText(o) == [json |-> "object", chars |-> "", obj |-> o]

\* JSON.stringify of a number or an object
JSONStringify(value) ==
    IF value.t = "number" THEN Chars(NumberToString(value.n)) ELSE ObjectText(value.o)

\* JSON.parse: an object text gives the object, a numeral gives the number, other
\* characters are no JSON and make it throw
JSONParses(text) == text.json = "object" \/ IsNumeral(text.chars)

JSONParse(text) ==
    IF text.json = "object" THEN JsObject(text.obj) ELSE JsNumber(NumberOfNumeral(text.chars))

\* a Storage of the browser: for each key its text, or no entry
NoItem == [has |-> FALSE, text |-> Chars("")]
EmptyStorage == [k \in {LOCAL_STORAGE_KEY, VERSION_KEY} |-> NoItem]

\* BrowserStorageService.setItem: the storage after the call and the returned flag;
\* writable is FALSE when Storage.setItem throws
setItem(ls, key, value, writable) ==
    LET serializedValue == IF value.t = "string" THEN Chars(value.s) ELSE JSONStringify(value)
    IN  IF writable
        THEN [ls |-> [ls EXCEPT ![key] = [has |-> TRUE, text |-> serializedValue]], ok |-> TRUE]
        ELSE [ls |-> ls, ok |-> FALSE]

\* BrowserStorageService.getItem
getItem(ls, key) ==
    IF ~ls[key].has THEN JsNull
    ELSE IF JSONParses(ls[key].text) THEN JSONParse(ls[key].text)
    ELSE JsString(ls[key].text.chars)

\* BrowserStorageService.removeItem
removeItem(ls, key) == [ls EXCEPT ![key] = NoItem]

\* BrowserStorageService.hasItem
hasItem(ls, key) == ls[key].has

\* if (stored) of loadPreferences
TruthyValue(value) ==
    CASE value.t = "null" -> FALSE
      [] value.t = "string" -> value.s # ""
      [] value.t = "number" -> value.n # 0
      [] OTHER -> TRUE

\* PreferencesService.loadPreferences
loadPreferences(ls) ==
    LET stored == getItem(ls, LOCAL_STORAGE_KEY)
    IN  IF TruthyValue(stored) THEN SpreadObjects(defaultPreferences, stored.o)
        ELSE defaultPreferences

\* PreferencesService.savePreferences on the service [ls, subject, emitted]: the storage,
\* the value of preferencesSubject and what it was given with next() during the call
savePreferences(svc, prefs, writable) ==
    LET set == setItem(svc.ls, LOCAL_STORAGE_KEY, JsObject(prefs), writable)
    IN  [ls |-> set.ls, subject |-> IF set.ok THEN prefs ELSE svc.subject,
         emitted |-> IF set.ok THEN Append(svc.emitted, prefs) ELSE svc.emitted]

\* faulty variant: a version mismatch keeps what was stored
PreferencesServiceKeepStored(ls, writable) ==
    LET initialPreferences == loadPreferences(ls)
        currentVersion == JsString(NumberToString(PREFERENCES_VERSION))
        versioned == setItem(ls, VERSION_KEY, currentVersion, writable).ls
    IN  savePreferences([ls |-> versioned, subject |-> initialPreferences, emitted |-> << >>],
                        initialPreferences, writable)

\* the constructor of PreferencesService over the storage ls
PreferencesServiceNew(ls, writable) ==
    LET initialPreferences == loadPreferences(ls)
        storedVersion == getItem(ls, VERSION_KEY)
        currentVersion == JsString(NumberToString(PREFERENCES_VERSION))
        svc == [ls |-> ls, subject |-> initialPreferences, emitted |-> << >>]
    IN  IF ~StrictEquals(storedVersion, currentVersion)
        THEN LET removed == removeItem(ls, LOCAL_STORAGE_KEY)
                 versioned == setItem(removed, VERSION_KEY, currentVersion, writable).ls
             IN  savePreferences([svc EXCEPT !.ls = versioned], defaultPreferences, writable)
        ELSE IF ~hasItem(ls, LOCAL_STORAGE_KEY)
        THEN savePreferences(svc, defaultPreferences, writable)
        ELSE LET currentStored == loadPreferences(ls)
                 merged == SpreadObjects(defaultPreferences, currentStored)
             IN  IF currentStored # merged THEN savePreferences(svc, merged, writable) ELSE svc

\* faulty variant: the other keys are taken from the defaults
updatePreferenceOverDefaults(svc, key, value, writable) ==
    savePreferences(svc, [defaultPreferences EXCEPT ![key] = value], writable)

\* PreferencesService.updatePreference
updatePreference(svc, key, value, writable) ==
    savePreferences(svc, [svc.subject EXCEPT ![key] = value], writable)

\* PreferencesService.resetPreferences
resetPreferences(svc, writable) == savePreferences(svc, defaultPreferences, writable)

\* PreferencesService.updateTheme
updateTheme(svc, preset, primaryColor, isDark, writable) ==
    LET newThemeName == preset \o "-" \o (IF isDark THEN "dark" ELSE "light") \o "-" \o primaryColor
    IN  savePreferences(svc, [svc.subject EXCEPT !["theme"] = newThemeName,
                                                 !["preset"] = preset,
                                                 !["primaryColor"] = primaryColor,
                                                 !["darkMode"] = IF isDark THEN "true" ELSE "false"],
                        writable)

\* no PreferencesService was constructed yet
NoPrefsOp ==
    [op |-> "none", writable |-> TRUE, keys |-> {}, before |-> EmptyStorage, emitted |-> << >>]

\* what the browser may hold when the application is loaded for the first time:
\* nothing, or the entries left by the release with version 1
OldPreferences ==
    [defaultPreferences EXCEPT !["theme"] = "lara-dark-blue", !["darkMode"] = "true"]

InitialStorages ==
    {EmptyStorage,
     [EmptyStorage EXCEPT ![VERSION_KEY] = [has |-> TRUE, text |-> Chars("1")]],
     [EmptyStorage EXCEPT ![VERSION_KEY] = [has |-> TRUE, text |-> Chars("1")],
                          ![LOCAL_STORAGE_KEY] = [has |-> TRUE, text |-> ObjectText(OldPreferences)]],
     [EmptyStorage EXCEPT ![LOCAL_STORAGE_KEY] = [has |-> TRUE, text |-> ObjectText(OldPreferences)]]}

(* ------------------------------------------------------------------ *)
(* AuthService.init and AuthGuard                                     *)
(* ------------------------------------------------------------------ *)

\* EnvironmentService: a setting that is missing reads as the empty string
KeycloakEnvs ==
    [keycloakUrl : {"", "https://kc"}, keycloakRealm : {"", "realm"},
     keycloakClientId : {"", "client"}]

\* keycloakConfigPresent of AuthService.init
keycloakConfigPresent(env) ==
    env.keycloakUrl # "" /\ env.keycloakRealm # "" /\ env.keycloakClientId # ""

\* AuthService after its constructor; pc is the position of init():
\* "new" not called, "import" awaiting import('keycloak-js'), "sdkInit" awaiting
\* keycloakInstance.init, "returned" and "rejected" the two ends of its promise
NewAuthService ==
    [pc |-> "new", initializedSource |-> FALSE, useKeycloak |-> FALSE,
     keycloakInstance |-> FALSE, authenticated |-> FALSE, sdk |-> "none"]

\* AuthService.isKeycloakActive
isKeycloakActive(a) == a.useKeycloak

\* AuthService.isAuthenticated
isAuthenticated(stg, a) ==
    IF stg = "MOCK" THEN TRUE ELSE a.keycloakInstance /\ a.authenticated

\* the switchMap of AuthGuard.canActivate: what the guard emits
AuthGuardDecision(stg, a) ==
    IF ~isKeycloakActive(a) THEN "/status/403"
    ELSE IF isAuthenticated(stg, a) THEN "true"
    ELSE "true"

\* AuthGuard.canActivate at subscription
AuthGuardSubscribe(stg, a) ==
    IF stg = "MOCK" THEN [st |-> "done", emitted |-> "true"]
    ELSE IF a.initializedSource
    THEN [st |-> "done", emitted |-> AuthGuardDecision(stg, a)]
    ELSE [st |-> "waiting", emitted |-> ""]

\* initializedSource.next(value) reaching the guards that wait (filter, take(1))
AuthGuardsOnInitialized(calls, stg, a) ==
    [i \in DOMAIN calls |->
        IF calls[i].st = "waiting" /\ a.initializedSource
        THEN [st |-> "done", emitted |-> AuthGuardDecision(stg, a)]
        ELSE calls[i]]

\* an environment with the three settings of the identity provider
CompleteKeycloakEnv ==
    [keycloakUrl |-> "https://kc", keycloakRealm |-> "realm", keycloakClientId |-> "client"]

\* no PreferencesService constructed yet, over the storage ls
PrefsIdle(ls) ==
    /\ localStorage = ls
    /\ preferences = EmptyObject
    /\ loads = 0
    /\ prefsOp = NoPrefsOp

\* AuthService constructed, init() not called, in the environment env
AuthIdle(env) ==
    /\ keycloakEnv = env
    /\ auth = NewAuthService
    /\ authGuardCalls = << >>

(* ------------------------------------------------------------------ *)
(* AuthService: the session with the identity SDK                     *)
(* ------------------------------------------------------------------ *)

\* the access tokens the provider issues, and keycloakInstance.tokenParsed of each
Tokens == {"t1", "t2"}

tokenParsed(token) ==
    IF token = "t1" THEN [realm |-> <<"k1">>, client |-> << >>]
    ELSE IF token = "t2" THEN [realm |-> << >>, client |-> <<"k2">>]
    ELSE [realm |-> << >>, client |-> << >>]

\* the SDK instance without a session
NoSession == [authenticated |-> FALSE, token |-> Absent]

\* the subjects and the role cache of AuthService after the constructor
NewSessionState ==
    [isAuthenticated |-> FALSE, userProfile |-> "null", accessToken |-> "null",
     cachedUserRoles |-> NoCachedRoles]

\* keycloakInstance.token ?? null
TokenOrNull(k) == IF k.token = Absent THEN "null" ELSE k.token

\* a promise of an SDK call: who made the call, and for which token-expired event
Promise(op, by, ev) == [op |-> op, by |-> by, ev |-> ev]

\* what AuthService did about one token-expired event
NewExpiry == [emits |-> 0, calls |-> << >>, update |-> "none"]

\* AuthService as the operations below see it
AuthWorld ==
    [stage |-> stage, useKeycloak |-> auth.useKeycloak, keycloakInstance |-> auth.keycloakInstance,
     kc |-> kc, sess |-> sess, promises |-> promises, expiries |-> expiries]

\* !this.isKeycloakActive() || !this.keycloakInstance
Inactive(w) == ~w.useKeycloak \/ ~w.keycloakInstance

\* AuthService.clearUserRolesCache
clearUserRolesCache(w) == [w EXCEPT !.sess.cachedUserRoles = NoCachedRoles]

\* AuthService.loadUserProfile up to its await
loadUserProfile(w) ==
    IF ~w.useKeycloak \/ ~(w.keycloakInstance /\ w.kc.authenticated)
    THEN [w EXCEPT !.sess.userProfile = "null"]
    ELSE [w EXCEPT !.promises = @ \cup {Promise("loadUserProfile", "app", 0)}]

\* keycloakInstance.loadUserProfile() ends
loadUserProfileEnds(w, p, loaded) ==
    [w EXCEPT !.promises = @ \ {p},
              !.sess.userProfile = IF loaded THEN "alice" ELSE "null"]

\* the handler of keycloakInstance.onAuthSuccess
onAuthSuccess(w) ==
    LET cleared == clearUserRolesCache(w)
    IN  loadUserProfile([cleared EXCEPT !.sess.isAuthenticated = TRUE,
                                        !.sess.accessToken = TokenOrNull(w.kc)])

\* the handler of keycloakInstance.onAuthError
onAuthError(w) == [w EXCEPT !.sess.isAuthenticated = FALSE]

\* the handler of keycloakInstance.onAuthRefreshSuccess
onAuthRefreshSuccess(w) ==
    [clearUserRolesCache(w) EXCEPT !.sess.accessToken = TokenOrNull(w.kc)]

\* the handler of keycloakInstance.onAuthRefreshError: only onAuthError$ emits
onAuthRefreshError(w) == w

\* the handler of keycloakInstance.onAuthLogout
onAuthLogout(w) ==
    [clearUserRolesCache(w) EXCEPT !.sess.userProfile = "null", !.sess.accessToken = "null",
                                   !.sess.isAuthenticated = FALSE]

\* AuthService.updateToken: the SDK's updateToken is called unless Keycloak is off
updateToken(w, by, ev) ==
    IF Inactive(w) THEN w
    ELSE [w EXCEPT !.promises = @ \cup {Promise("updateToken", by, ev)}]

\* AuthService.logout up to the SDK's promise
logout(w, by, ev) ==
    IF Inactive(w) THEN w
    ELSE [w EXCEPT !.promises = @ \cup {Promise("logout", by, ev)}]

\* AuthService.login up to the SDK's promise
login(w) ==
    IF Inactive(w) THEN w
    ELSE [w EXCEPT !.promises = @ \cup {Promise("login", "app", 0)}]

\* AuthService.getToken up to the SDK's promise
getToken(w) ==
    IF Inactive(w) \/ ~w.kc.authenticated THEN w ELSE updateToken(w, "getToken", 0)

\* the handler of keycloakInstance.onTokenExpired for the event number ev
onTokenExpired(w, ev) ==
    LET emitted == [w EXCEPT !.expiries[ev].emits = @ + 1]
        called == updateToken(emitted, "expired", ev)
    IN  IF Inactive(w) THEN [called EXCEPT !.expiries[ev].update = "resolved"]
        ELSE [called EXCEPT !.expiries[ev].calls = Append(@, "updateToken"),
                            !.expiries[ev].update = "pending"]

\* the SDK's updateToken promise p ends: the token was still valid, it was
\* refreshed (the SDK replaces its token and calls onAuthRefreshSuccess), or the
\* refresh failed (the SDK calls onAuthRefreshError and rejects)
updateTokenEnds(w, p, outcome, newToken) ==
    LET done == [w EXCEPT !.promises = @ \ {p}]
        noted == IF p.by = "expired"
                 THEN [done EXCEPT !.expiries[p.ev].update =
                                        IF outcome = "failed" THEN "rejected" ELSE "resolved"]
                 ELSE done
    IN  CASE outcome = "valid" -> noted
          [] outcome = "refreshed" -> onAuthRefreshSuccess([noted EXCEPT !.kc.token = newToken])
          [] OTHER ->
               LET failed == onAuthRefreshError(noted)
               IN  IF p.by = "expired"
                   THEN logout([failed EXCEPT !.expiries[p.ev].calls = Append(@, "logout")],
                               "expired", p.ev)
                   ELSE failed

\* the SDK's logout promise p ends; when it resolves the browser is on its way to
\* the provider's logout page
logoutEnds(w, p, resolved) ==
    LET done == [w EXCEPT !.promises = @ \ {p}]
    IN  IF resolved THEN done
        ELSE [done EXCEPT !.sess.userProfile = "null", !.sess.accessToken = "null",
                          !.sess.isAuthenticated = FALSE]

\* the SDK's login promise p ends
loginEnds(w, p, resolved) ==
    LET done == [w EXCEPT !.promises = @ \ {p}]
    IN  IF resolved THEN [done EXCEPT !.sess.accessToken = TokenOrNull(w.kc)] ELSE done

\* AuthService.getUserRoles under the role index: the value returned and the cache
getUserRolesCall(w, index) ==
    LET parsed == tokenParsed(w.kc.token)
        authenticated == isAuthenticated(w.stage, [keycloakInstance |-> w.keycloakInstance,
                                                    authenticated |-> w.kc.authenticated])
                           /\ w.keycloakInstance /\ w.kc.token # Absent
        roles == getUserRoles(w.stage, w.sess.cachedUserRoles, authenticated,
                              parsed.realm, parsed.client, index)
    IN  [result |-> roles,
         world |-> [w EXCEPT !.sess.cachedUserRoles = [has |-> TRUE, roles |-> roles]]]

\* AuthService.hasRole
hasRole(w, index, role) ==
    IF w.stage = "MOCK" THEN TRUE
    ELSE IF ~(w.keycloakInstance /\ w.kc.authenticated) \/ w.kc.token = Absent THEN FALSE
    ELSE role \in Range(MapResult(w.stage, index,
                                  tokenParsed(w.kc.token).realm \o tokenParsed(w.kc.token).client))

NoAuthOp == [name |-> "none", callback |-> FALSE, result |-> << >>]

\* AuthService without a session, nothing called yet
SessionIdle ==
    /\ kc = NoSession
    /\ sess = NewSessionState
    /\ promises = {}
    /\ expiries = << >>
    /\ lastAuthOp = NoAuthOp

(* ------------------------------------------------------------------ *)
(* ApiLogService                                                      *)
(* ------------------------------------------------------------------ *)
NewApiLogs == [logs |-> << >>, idCounter |-> 0]

\* the ids of the entries ApiLogService holds
LogIds(l) == {l.logs[i].id : i \in DOMAIN l.logs}

\* addEntry: the id is idCounter++, the entry is put in front (unshift); the
\* entry is returned to the caller
addEntry(l, entry) ==
    LET newEntry == [id |-> l.idCounter, status |-> entry.status]
    IN [service |-> [logs |-> <<newEntry>> \o l.logs, idCounter |-> l.idCounter + 1],
        result |-> newEntry]

\* findIndex((log) => log.id === id): 0 stands for -1
findIndex(logs, id) ==
    IF \E i \in DOMAIN logs : logs[i].id = id
    THEN CHOOSE i \in DOMAIN logs : logs[i].id = id /\ \A j \in 1..(i - 1) : logs[j].id # id
    ELSE 0

\* faulty variant: an entry that is not in the list is put back in front
updateEntryOrInsert(l, updatedEntry) ==
    LET index == findIndex(l.logs, updatedEntry.id)
    IN IF index > 0 THEN [l EXCEPT !.logs[index] = updatedEntry]
       ELSE [l EXCEPT !.logs = <<updatedEntry>> \o @]

\* updateEntry: replaces the entry of that id, if there is one
updateEntry(l, updatedEntry) ==
    LET index == findIndex(l.logs, updatedEntry.id)
    IN IF index > 0 THEN [l EXCEPT !.logs[index] = updatedEntry] ELSE l

\* clearLogs: the list is emptied, idCounter is kept
clearLogs(l) == [l EXCEPT !.logs = << >>]

\* EnvironmentService.isProduction
isProduction(stg) == stg = "PROD"

\* what apiLoggingInterceptor keeps of one request: the entry addEntry returned
\* (NoLogEntry when nothing was recorded), whether the request is open, and
\* whether its update found the entry gone
NoLogEntry == [id |-> -1, status |-> "none"]

\* apiLoggingInterceptor, up to the call of next(request)
apiLoggingInterceptor(stg, l) ==
    IF isProduction(stg)
    THEN [service |-> l, call |-> [logEntry |-> NoLogEntry, open |-> TRUE, missed |-> FALSE]]
    ELSE LET added == addEntry(l, [status |-> "pending"])
         IN [service |-> added.service,
             call |-> [logEntry |-> added.result, open |-> TRUE, missed |-> FALSE]]

\* tap (status 'succeeded' on the HttpResponse) and catchError (status 'failed')
\* of apiLoggingInterceptor
apiLoggingEnds(l, call, status) ==
    IF call.logEntry = NoLogEntry
    THEN [service |-> l, call |-> [call EXCEPT !.open = FALSE]]
    ELSE [service |-> updateEntry(l, [call.logEntry EXCEPT !.status = status]),
          call |-> [call EXCEPT !.open = FALSE,
                                !.missed = call.logEntry.id \notin LogIds(l)]]

LogIdle ==
    /\ apiLogs = NewApiLogs
    /\ logged = << >>

(* ------------------------------------------------------------------ *)
(* AppLoadingService                                                   *)
(* ------------------------------------------------------------------ *)
\* the ids under which sources are registered, each with an observable of its own
SourceIds == {"a", "b"}

\* the observable of a caller: it replays its last value to a new subscriber
\* (BehaviorSubject, ReplaySubject(1)) or it does not (Subject)
SourceKinds == {"ReplaySubject", "Subject"}

\* a source: kind and last emission of the caller's observable ("none", "true", "false"),
\* whether loadingSourcesMap holds it, the latest value combineLatest has of it, and
\* its latest emission since it was registered
NewSource(kind) ==
    [kind |-> kind, last |-> "none", registered |-> FALSE, latest |-> FALSE,
     reported |-> "none"]

\* what a subscriber of the observable is given at once when it subscribes
Replayed(src) == IF src.kind = "ReplaySubject" THEN src.last ELSE "none"

\* preparedSource$ = isLoading$.pipe(startWith(true), distinctUntilChanged()) when
\* combineLatest subscribes to it: true, then what the observable replays
preparedSource(src) == IF Replayed(src) = "none" THEN TRUE ELSE Replayed(src) = "true"

\* sourcesArraySubject.next(array) under switchMap: the old combineLatest is given up
\* and a new one subscribes to every source of the map
switchMap(sources) ==
    [id \in SourceIds |->
        IF sources[id].registered
        THEN [sources[id] EXCEPT !.latest = preparedSource(sources[id])]
        ELSE sources[id]]

\* combinedSourcesLoading$: of(false) for the empty array, else states.some(...)
combinedSourcesLoading(sources) ==
    IF \A id \in SourceIds : ~sources[id].registered THEN FALSE
    ELSE \E id \in SourceIds : sources[id].registered /\ sources[id].latest

\* the map of isLoading$
isLoadingOf(sourcesLoading, forceState) ==
    IF forceState = "true" THEN TRUE
    ELSE IF forceState = "false" THEN FALSE
    ELSE sourcesLoading

\* AppLoadingService.registerSource(id, isLoading$)
registerSource(sources, id) ==
    switchMap([sources EXCEPT ![id].registered = TRUE,
                              ![id].reported = Replayed(sources[id])])

\* AppLoadingService.unregisterSource(id)
unregisterSource(sources, id) ==
    IF sources[id].registered
    THEN switchMap([sources EXCEPT ![id].registered = FALSE])
    ELSE sources

\* the observable of source id emits value
sourceNext(sources, id, value) ==
    IF sources[id].registered
    THEN [sources EXCEPT ![id].last = value, ![id].latest = (value = "true"),
                         ![id].reported = value]
    ELSE [sources EXCEPT ![id].last = value]

\* the service after construction, isLoading$ subscribed by the loading screen
LoadIdle ==
    /\ loadingSources = [id \in SourceIds |-> NewSource("ReplaySubject")]
    /\ forceLoadingState = "null"
    /\ appIsLoading = FALSE

\* the whole user interface before anything happened
UiIdle ==
    /\ HttpIdle
    /\ PrefsIdle(EmptyStorage)
    /\ AuthIdle(CompleteKeycloakEnv)
    /\ SessionIdle
    /\ LogIdle
    /\ LoadIdle

(* ------------------------------------------------------------------ *)
(* Actions                                                             *)
(* ------------------------------------------------------------------ *)
NoMap == [called |-> FALSE, in |-> << >>, out |-> << >>]

NoInput == [kind |-> "none", stg |-> "DEV", data |-> [roles |-> Undefined, allRoles |-> Undefined, excludeRoles |-> Undefined],
            access |-> NoAccess, roles |-> << >>, ks |-> << >>, perm |-> << >>]
NoOutput == [kind |-> "none", guard |-> NoDecision, menu |-> FALSE, a |-> << >>, b |-> << >>]

Init ==
    /\ pIn = NoInput
    /\ pOut = NoOutput
    /\ stage \in Stages
    /\ access \in UserAccess
    /\ initialized = FALSE
    /\ isLoadingMappings = TRUE
    /\ internalRolesCache = NullCache
    /\ roleMappingCache = EmptyMap
    /\ storage \in {StorageNull} \cup {Stored(r) : r \in RoleLists}
    /\ staleFetches = 0
    /\ ensureCalls = << >>
    /\ guardCalls = << >>
    /\ lastMap = NoMap
    /\ UiIdle

Bounded(w) == w.stale <= MaxStale

EnsureRolesLoaded ==
    /\ Len(ensureCalls) < MaxEnsureCalls
    /\ \E o \in FetchOutcomes \cup {Async} :
          /\ Bounded(ensureRolesLoaded(World, o))
          /\ Commit(ensureRolesLoaded(World, o))
    /\ UNCHANGED lastMap

GetAvailableInternalRoles ==
    /\ \E o \in FetchOutcomes \cup {Async} : Commit(getAvailableInternalRoles(World, o))
    /\ UNCHANGED lastMap

ClearCache ==
    /\ \E o \in FetchOutcomes \cup {Async} :
          /\ Bounded(clearCache(World, o))
          /\ Commit(clearCache(World, o))
    /\ UNCHANGED lastMap

\* the fetch of the cached observable ends
FetchEndsCurrent ==
    /\ internalRolesCache.kind = "fetch" /\ internalRolesCache.st = "pending"
    /\ \E o \in FetchOutcomes : Commit(FetchEnds(World, o, TRUE))
    /\ UNCHANGED lastMap

\* the fetch of an observable dropped by clearCache ends
FetchEndsStale ==
    /\ staleFetches > 0
    /\ \E o \in FetchOutcomes : Commit(FetchEnds([World EXCEPT !.stale = @ - 1], o, FALSE))
    /\ UNCHANGED lastMap

CanActivate ==
    /\ Len(guardCalls) < MaxGuardCalls
    /\ \E r \in Routes : Commit(canActivate(World, r))
    /\ UNCHANGED lastMap

\* some caller maps provider roles; the caller takes the value in MapReturn
MapCall ==
    /\ ~lastMap.called
    /\ \E ks \in KcRoleSeqs :
          LET r == mapKeycloakRolesToInternalRoles(World, ks)
          IN /\ lastMap' = [called |-> TRUE, in |-> ks, out |-> r.result]
             /\ Commit(r.world)

MapReturn ==
    /\ lastMap.called
    /\ lastMap' = NoMap
    /\ UNCHANGED <<stage, access, initialized, isLoadingMappings, internalRolesCache,
                   roleMappingCache, storage, staleFetches, ensureCalls, guardCalls,
                   pIn, pOut, uiVars>>

Next ==
    \/ EnsureRolesLoaded
    \/ GetAvailableInternalRoles
    \/ ClearCache
    \/ FetchEndsCurrent
    \/ FetchEndsStale
    \/ CanActivate

\* the role service with its promises and the guard
Spec == Init /\ [][Next]_vars

\* every provider fetch that was started ends
FairSpec == Spec /\ WF_vars(FetchEndsCurrent) /\ WF_vars(FetchEndsStale)

\* the role service with callers of mapKeycloakRolesToInternalRoles; the call is
\* synchronous, so nothing else runs between MapCall and MapReturn
NextMap ==
    \/ ~lastMap.called /\ EnsureRolesLoaded
    \/ ~lastMap.called /\ GetAvailableInternalRoles
    \/ ~lastMap.called /\ ClearCache
    \/ ~lastMap.called /\ FetchEndsCurrent
    \/ ~lastMap.called /\ FetchEndsStale
    \/ MapCall
    \/ MapReturn

MapSpec == Init /\ [][NextMap]_vars

(* ------------------------------------------------------------------ *)
(* Calls of the pure functions on enumerated arguments                 *)
(* ------------------------------------------------------------------ *)
\* internal role names a route or a menu item may require
RequirementNames == {ADMIN_ROLE, "r1"}

DataFields == {Undefined} \cup {Arr(v) : v \in SeqsUpTo(RequirementNames, MaxReqLen)}

RouteDatas == [roles : DataFields, allRoles : DataFields, excludeRoles : DataFields]

\* client roles in the tokens of the enumerated users
TokenRoleNames == {"k1", "r1"}

TokenAccess == {NoAccess} \cup {Access(v) : v \in SeqsUpTo(TokenRoleNames, MaxKcLen)}

\* the orderings of the array ks
Orderings(ks) ==
    {[i \in 1..Len(ks) |-> ks[f[i]]] : f \in Permutations(1..Len(ks))}

GuardInputs ==
    {[NoInput EXCEPT !.kind = "guard", !.stg = sg, !.data = d, !.access = a] :
        sg \in Stages, d \in RouteDatas, a \in TokenAccess}

\* requirements stated for a route and, identically, for a menu item
SharedFields == {Undefined} \cup {Arr(<<n>>) : n \in RequirementNames}

SharedDatas == [roles : SharedFields, allRoles : SharedFields, excludeRoles : SharedFields]

MenuInputs ==
    {[NoInput EXCEPT !.kind = "menu", !.stg = sg, !.data = d, !.access = a, !.roles = r] :
        sg \in Stages, d \in SharedDatas, a \in TokenAccess, r \in RoleLists}

MapRoleLists == SeqsUpTo(RoleRecs, MaxMapListLen)

MapInputs ==
    UNION {{[NoInput EXCEPT !.kind = "map", !.stg = sg, !.roles = r, !.ks = ks, !.perm = pm] :
              sg \in Stages, r \in MapRoleLists, pm \in Orderings(ks)} : ks \in KcRoleSeqs}

InitPure ==
    /\ pIn \in GuardInputs \cup MenuInputs \cup MapInputs
    /\ pOut = NoOutput
    /\ stage = "DEV"
    /\ access = NoAccess
    /\ initialized = FALSE
    /\ isLoadingMappings = TRUE
    /\ internalRolesCache = NullCache
    /\ roleMappingCache = EmptyMap
    /\ storage = StorageNull
    /\ staleFetches = 0
    /\ ensureCalls = << >>
    /\ guardCalls = << >>
    /\ lastMap = NoMap
    /\ UiIdle

machineVars == <<stage, access, initialized, isLoadingMappings, internalRolesCache,
                 roleMappingCache, storage, staleFetches, ensureCalls, guardCalls, lastMap,
                 uiVars>>

\* the route data check of RoleGuard
EvalGuard ==
    /\ pIn.kind = "guard" /\ pOut.kind = "none"
    /\ pOut' = [NoOutput EXCEPT !.kind = "guard",
                                !.guard = checkRouteDataRoles(pIn.stg, pIn.data, pIn.access)]
    /\ UNCHANGED <<pIn, machineVars>>

\* the route data check of RoleGuard and the menu check of MenuService for the
\* same requirements, user and role index
EvalMenu ==
    /\ pIn.kind = "menu" /\ pOut.kind = "none"
    /\ LET index == buildRoleMappingCache(pIn.roles)
           userRoles == getCurrentUserRoles(pIn.stg, NoCachedRoles, pIn.access.present,
                                            << >>, getRoles(pIn.access), index)
       IN pOut' = [NoOutput EXCEPT !.kind = "menu",
                                   !.guard = checkRouteDataRoles(pIn.stg, pIn.data, pIn.access),
                                   !.menu = hasAccessToMenuItem(MenuItemRoleOf(pIn.data), userRoles)]
    /\ UNCHANGED <<pIn, machineVars>>

\* mapKeycloakRolesToInternalRoles on an array and on one of its orderings
EvalMap ==
    /\ pIn.kind = "map" /\ pOut.kind = "none"
    /\ LET index == buildRoleMappingCache(pIn.roles)
       IN pOut' = [NoOutput EXCEPT !.kind = "map",
                                   !.a = MapResult(pIn.stg, index, pIn.ks),
                                   !.b = MapResult(pIn.stg, index, pIn.perm)]
    /\ UNCHANGED <<pIn, machineVars>>

NextPure == EvalGuard \/ EvalMenu \/ EvalMap

PureSpec == InitPure /\ [][NextPure]_vars

(* ------------------------------------------------------------------ *)
(* The banner and the interceptors at work                             *)
(* ------------------------------------------------------------------ *)
MaxTime == 15000
TickStep == 5000
MaxErrors == 6

roleVars == <<stage, access, initialized, isLoadingMappings, internalRolesCache,
              roleMappingCache, storage, staleFetches, ensureCalls, guardCalls, lastMap,
              pIn, pOut>>

\* the role service before anything happened
RolesIdle ==
    /\ pIn = NoInput
    /\ pOut = NoOutput
    /\ access = NoAccess
    /\ initialized = FALSE
    /\ isLoadingMappings = TRUE
    /\ internalRolesCache = NullCache
    /\ roleMappingCache = EmptyMap
    /\ storage = StorageNull
    /\ staleFetches = 0
    /\ ensureCalls = << >>
    /\ guardCalls = << >>
    /\ lastMap = NoMap

\* a caller that passes its own threshold and window
CustomErrorConfig ==
    [errorThreshold |-> Val(2), timeWindow |-> Val(5000), autoHide |-> Missing,
     autoHideTimeout |-> Missing, closable |-> Missing]

ErrorConfigs == {NoErrorConfig, CustomErrorConfig}

ResponseBodies ==
    {Body("1", "r", "abc", m, NoBodyMeta, Absent, << >>) : m \in {Absent, "m"}}
    \cup {Body(Absent, Absent, Absent, Absent, BodyMeta(sg, "s1"), "d", e) :
             sg \in {Absent, "DEV", "PROD"},
             e \in {<< >>, <<[kind |-> "array", msgs |-> <<"e1", "e2">>],
                            [kind |-> "string", msgs |-> <<"e3">>]>>}}
    \cup {NullBody, Body(Absent, Absent, Absent, Absent, NoBodyMeta, Absent, << >>)}

HttpErrors ==
    {TimeoutError}
    \cup {HttpErrorResponse(st, ApiUrl) : st \in {0, 403, 404, 500}}
    \cup {HttpErrorResponse(403, StatusPageUrl), HttpErrorResponse(500, StatusDataUrl),
          HttpErrorResponse(403, << >>)}

CommitBanner(b) ==
    /\ bannerState' = b.state
    /\ autoHideTimer' = b.timer
    /\ timerQueue' = b.queue
    /\ errorLog' = b.log
    /\ errorsAtHide' = b.hidden

\* time passes
Tick ==
    /\ now + TickStep <= MaxTime
    /\ now' = now + TickStep
    /\ UNCHANGED <<bannerComponent, bannerState, autoHideTimer, timerQueue, errorLog, errorsAtHide,
                   apiMetadata, lastHttp, roleVars, prefVars, authVars, sessionVars, logVars, loadVars>>

\* AppBannerComponent.ngOnInit
NgOnInit ==
    /\ ~bannerComponent
    /\ bannerComponent' = TRUE
    /\ UNCHANGED <<now, bannerState, autoHideTimer, timerQueue, errorLog, errorsAtHide, apiMetadata,
                   lastHttp, roleVars, prefVars, authVars, sessionVars, logVars, loadVars>>

\* some code calls BannerService.registerError(config); the application passes the
\* same window in all its calls
RegisterErrorCall ==
    /\ Len(errorLog) < MaxErrors
    /\ \E config \in ErrorConfigs :
          /\ \A i \in DOMAIN errorLog :
                errorLog[i].w = OrDefault(config.timeWindow, DEFAULT_TIME_WINDOW_MS)
          /\ CommitBanner(serviceRegisterError(bannerComponent, Banner, config).banner)
    /\ UNCHANGED <<now, bannerComponent, apiMetadata, lastHttp, roleVars, prefVars, authVars, sessionVars, logVars, loadVars>>

\* BannerService.hide(): the close button or the application
Hide ==
    /\ bannerComponent
    /\ CommitBanner(hide(Banner))
    /\ UNCHANGED <<now, bannerComponent, apiMetadata, lastHttp, roleVars, prefVars, authVars, sessionVars, logVars, loadVars>>

\* the callback of the auto-hide timer runs
AutoHideFires ==
    /\ \E t \in timerQueue :
          /\ now >= t
          /\ CommitBanner(hide([Banner EXCEPT !.queue = @ \ {t}]))
    /\ UNCHANGED <<now, bannerComponent, apiMetadata, lastHttp, roleVars, prefVars, authVars, sessionVars, logVars, loadVars>>

\* BannerService.showSuccess
ShowSuccess ==
    /\ bannerComponent
    /\ CommitBanner(showSuccess(Banner))
    /\ UNCHANGED <<now, bannerComponent, apiMetadata, lastHttp, roleVars, prefVars, authVars, sessionVars, logVars, loadVars>>

\* a request fails or times out and errorInterceptor handles it
HttpError ==
    /\ Len(errorLog) < MaxErrors
    /\ \E e \in HttpErrors, sup \in BOOLEAN :
          LET req == [url |-> IF Len(e.url) > 0 THEN e.url ELSE ApiUrl, suppressToasts |-> sup]
              o == errorInterceptor(bannerComponent, Banner, req, e)
          IN /\ CommitBanner(o.banner)
             /\ lastHttp' = [NoHttp EXCEPT !.kind = "error", !.request = req, !.error = e,
                                           !.toasts = o.toasts, !.nav = o.nav,
                                           !.thrown = o.thrown,
                                           !.registered = Len(o.banner.log) > Len(errorLog)]
    /\ UNCHANGED <<now, bannerComponent, apiMetadata, roleVars, prefVars, authVars, sessionVars, logVars, loadVars>>

\* a request is answered and apiInterceptor handles the response
HttpResponse ==
    /\ \E body \in ResponseBodies, url \in {ApiUrl, AssetUrl, ExternalUrl}, sup \in BOOLEAN :
          LET req == [url |-> url, suppressToasts |-> sup]
              o == apiInterceptor(stage, apiMetadata, req, body)
          IN /\ apiMetadata' = o.metadata
             /\ lastHttp' = [NoHttp EXCEPT !.kind = "response", !.request = req, !.body = body,
                                           !.toasts = o.toasts, !.nav = o.nav,
                                           !.forwarded = IF o.unwrapped = "no" THEN "body" ELSE o.body,
                                           !.unwrapped = o.unwrapped]
    /\ UNCHANGED <<now, bannerComponent, bannerState, autoHideTimer, timerQueue, errorLog, errorsAtHide,
                   roleVars, prefVars, authVars, sessionVars, logVars, loadVars>>

InitUi == stage \in Stages /\ RolesIdle /\ UiIdle

\* BannerService.show({type: 'error', title, message}): no display setting given
ShowCall ==
    /\ bannerComponent
    /\ CommitBanner(show(Banner, WithOptions("error", NoOptions)))
    /\ UNCHANGED <<now, bannerComponent, apiMetadata, lastHttp, roleVars, prefVars, authVars, sessionVars, logVars, loadVars>>

\* BannerService.showError(title, message): no option given
ShowError ==
    /\ bannerComponent
    /\ CommitBanner(showError(Banner, NoOptions))
    /\ UNCHANGED <<now, bannerComponent, apiMetadata, lastHttp, roleVars, prefVars, authVars, sessionVars, logVars, loadVars>>

\* AppBannerComponent.ngOnDestroy: the service forgets the component and the pending
\* timer is cleared; the instance is discarded, the next one starts in its initial state
NgOnDestroy ==
    /\ bannerComponent
    /\ bannerComponent' = FALSE
    /\ CommitBanner([clearAutoHideTimer(Banner) EXCEPT !.state = InitialBannerState,
                                                       !.hidden = Len(errorLog)])
    /\ UNCHANGED <<now, apiMetadata, lastHttp, roleVars, prefVars, authVars, sessionVars, logVars, loadVars>>

NextShow ==
    \/ Tick
    \/ NgOnInit
    \/ NgOnDestroy
    \/ RegisterErrorCall
    \/ ShowCall
    \/ ShowError
    \/ ShowSuccess
    \/ Hide
    \/ AutoHideFires

\* the banner with every way to show, hide and destroy it
ShowSpec == InitUi /\ [][NextShow]_vars

NextBanner ==
    \/ Tick
    \/ NgOnInit
    \/ RegisterErrorCall
    \/ Hide
    \/ AutoHideFires
    \/ ShowSuccess

\* the banner over time, with the errors that callers register
BannerSpec == InitUi /\ [][NextBanner]_vars

NextError ==
    \/ Tick
    \/ NgOnInit
    \/ Hide
    \/ HttpError

\* errorInterceptor over time, with the banner it escalates to
ErrorSpec == InitUi /\ [][NextError]_vars

NextPipeline ==
    \/ NgOnInit
    \/ HttpResponse
    \/ HttpError

\* the two interceptors handling one exchange after the other
PipelineSpec == InitUi /\ [][NextPipeline]_vars

(* ------------------------------------------------------------------ *)
(* The preferences across loads of the application                     *)
(* ------------------------------------------------------------------ *)
MaxLoads == 3

\* the arguments of updatePreference that are tried
PreferenceUpdates ==
    {<<"language", "de">>, <<"scale", "16">>, <<"testRole", "admin">>}

ThemePresets == {"Aura", "Lara"}
ThemeColors == {"orange", "blue"}

PrefsService == [ls |-> localStorage, subject |-> preferences, emitted |-> << >>]

CommitPrefs(svc, op, writable, keys) ==
    /\ localStorage' = svc.ls
    /\ preferences' = svc.subject
    /\ prefsOp' = [op |-> op, writable |-> writable, keys |-> keys, before |-> localStorage,
                   emitted |-> svc.emitted]
    /\ UNCHANGED <<roleVars, httpVars, authVars, sessionVars, logVars, loadVars>>

\* the application is loaded: PreferencesService is constructed over the storage
Construct ==
    /\ loads < MaxLoads
    /\ \E writable \in BOOLEAN :
          CommitPrefs(PreferencesServiceNew(localStorage, writable), "construct", writable, {})
    /\ loads' = loads + 1

UpdatePreference ==
    /\ loads > 0
    /\ \E kv \in PreferenceUpdates, writable \in BOOLEAN :
          CommitPrefs(updatePreference(PrefsService, kv[1], kv[2], writable),
                      "updatePreference", writable, {kv[1]})
    /\ UNCHANGED loads

UpdateTheme ==
    /\ loads > 0
    /\ \E preset \in ThemePresets, primaryColor \in ThemeColors, isDark \in BOOLEAN,
          writable \in BOOLEAN :
          CommitPrefs(updateTheme(PrefsService, preset, primaryColor, isDark, writable),
                      "updateTheme", writable, {"theme", "preset", "primaryColor", "darkMode"})
    /\ UNCHANGED loads

ResetPreferences ==
    /\ loads > 0
    /\ \E writable \in BOOLEAN :
          CommitPrefs(resetPreferences(PrefsService, writable), "resetPreferences", writable, {})
    /\ UNCHANGED loads

InitPrefs ==
    /\ stage \in Stages
    /\ RolesIdle
    /\ HttpIdle
    /\ AuthIdle(CompleteKeycloakEnv)
    /\ \E ls \in InitialStorages : PrefsIdle(ls)
    /\ SessionIdle
    /\ LogIdle
    /\ LoadIdle

NextPrefs ==
    \/ Construct
    \/ UpdatePreference
    \/ UpdateTheme
    \/ ResetPreferences

\* the preferences over several loads of the application
PrefSpec == InitPrefs /\ [][NextPrefs]_vars

(* ------------------------------------------------------------------ *)
(* AuthService.init and the AuthGuard calls around it                  *)
(* ------------------------------------------------------------------ *)
MaxAuthGuardCalls == 3

\* what keycloakInstance.init(initOptions) can end with: a session, the redirect to
\* the login page, or an error because the provider cannot be reached
SdkOutcomes == {"authenticated", "redirect", "error"}

CommitAuth(a) ==
    /\ auth' = a
    /\ authGuardCalls' = AuthGuardsOnInitialized(authGuardCalls, stage, a)
    /\ UNCHANGED <<keycloakEnv, roleVars, httpVars, prefVars, sessionVars, logVars, loadVars>>

\* AuthService.init() up to its first await or return
AuthInit ==
    /\ auth.pc = "new"
    /\ LET useKeycloak == stage # "MOCK" /\ keycloakConfigPresent(keycloakEnv)
       IN  IF useKeycloak
           THEN CommitAuth([auth EXCEPT !.useKeycloak = TRUE, !.initializedSource = FALSE,
                                        !.pc = "import"])
           ELSE CommitAuth([auth EXCEPT !.useKeycloak = FALSE, !.initializedSource = TRUE,
                                        !.pc = "returned"])

\* import('keycloak-js') ends: the instance is created and keycloakInstance.init
\* started, or the promise of init() is rejected
ImportEnds ==
    /\ auth.pc = "import"
    /\ \E loaded \in BOOLEAN :
          IF loaded
          THEN CommitAuth([auth EXCEPT !.keycloakInstance = TRUE, !.pc = "sdkInit"])
          ELSE CommitAuth([auth EXCEPT !.pc = "rejected"])

\* keycloakInstance.init(initOptions) ends
SdkInitEnds ==
    /\ auth.pc = "sdkInit"
    /\ \E outcome \in SdkOutcomes :
          CommitAuth([auth EXCEPT !.authenticated = (outcome = "authenticated"),
                                  !.sdk = IF outcome = "error" THEN "failed" ELSE "ok",
                                  !.initializedSource = TRUE,
                                  !.pc = "returned"])

\* the SDK gains or loses the session later (login, logout, expired token)
SessionChanges ==
    /\ auth.pc = "returned"
    /\ auth.sdk = "ok"
    /\ CommitAuth([auth EXCEPT !.authenticated = ~auth.authenticated])

\* the router asks AuthGuard.canActivate
AuthCanActivate ==
    /\ Len(authGuardCalls) < MaxAuthGuardCalls
    /\ authGuardCalls' = Append(authGuardCalls, AuthGuardSubscribe(stage, auth))
    /\ UNCHANGED <<auth, keycloakEnv, roleVars, httpVars, prefVars, sessionVars, logVars, loadVars>>

InitAuth ==
    /\ stage \in Stages
    /\ RolesIdle
    /\ HttpIdle
    /\ PrefsIdle(EmptyStorage)
    /\ \E env \in KeycloakEnvs : AuthIdle(env)
    /\ SessionIdle
    /\ LogIdle
    /\ LoadIdle

NextAuth ==
    \/ AuthInit
    \/ ImportEnds
    \/ SdkInitEnds
    \/ SessionChanges
    \/ AuthCanActivate

\* the initialisation of AuthService and the guard calls before and after it
AuthSpec == InitAuth /\ [][NextAuth]_vars

(* ------------------------------------------------------------------ *)
(* The session: SDK events and the calls of the application            *)
(* ------------------------------------------------------------------ *)
MaxExpiries == 2

\* AuthService after init() has returned: Keycloak in use outside the mock stage
InitializedAuth(stg) ==
    IF stg = "MOCK"
    THEN [NewAuthService EXCEPT !.pc = "returned", !.initializedSource = TRUE]
    ELSE [NewAuthService EXCEPT !.pc = "returned", !.initializedSource = TRUE,
                                !.useKeycloak = TRUE, !.keycloakInstance = TRUE, !.sdk = "ok"]

CommitSession(w, name, callback, result) ==
    /\ kc' = w.kc
    /\ sess' = w.sess
    /\ promises' = w.promises
    /\ expiries' = w.expiries
    /\ lastAuthOp' = [name |-> name, callback |-> callback, result |-> result]
    /\ UNCHANGED <<roleVars, httpVars, prefVars, authVars, logVars, loadVars>>

PromisesOf(op) == {p \in promises : p.op = op}

\* the SDK signs the user in and calls onAuthSuccess
SdkAuthSuccess ==
    /\ auth.keycloakInstance /\ ~kc.authenticated
    /\ \E t \in Tokens :
          CommitSession(onAuthSuccess([AuthWorld EXCEPT !.kc = [authenticated |-> TRUE, token |-> t]]),
                        "onAuthSuccess", TRUE, << >>)

\* a sign-in fails and the SDK calls onAuthError
SdkAuthError ==
    /\ auth.keycloakInstance /\ ~kc.authenticated
    /\ CommitSession(onAuthError(AuthWorld), "onAuthError", TRUE, << >>)

\* the SDK drops the session and calls onAuthLogout
SdkAuthLogout ==
    /\ auth.keycloakInstance /\ kc.authenticated
    /\ CommitSession(onAuthLogout([AuthWorld EXCEPT !.kc = NoSession]), "onAuthLogout", TRUE, << >>)

\* the access token expires and the SDK calls onTokenExpired
SdkTokenExpired ==
    /\ auth.keycloakInstance /\ kc.authenticated
    /\ Len(expiries) < MaxExpiries
    /\ CommitSession(onTokenExpired([AuthWorld EXCEPT !.expiries = Append(@, NewExpiry)],
                                    Len(expiries) + 1),
                     "onTokenExpired", TRUE, << >>)

UpdateTokenEnds ==
    \E p \in PromisesOf("updateToken"), outcome \in {"valid", "refreshed", "failed"},
       newToken \in Tokens :
        /\ outcome = "refreshed" => kc.authenticated
        /\ outcome # "refreshed" => newToken = "t1"
        /\ CommitSession(updateTokenEnds(AuthWorld, p, outcome, newToken),
                         CASE outcome = "refreshed" -> "onAuthRefreshSuccess"
                           [] outcome = "failed" -> "onAuthRefreshError"
                           [] OTHER -> "updateToken",
                         outcome # "valid", << >>)

LogoutEnds ==
    \E p \in PromisesOf("logout"), resolved \in BOOLEAN :
        CommitSession(logoutEnds(AuthWorld, p, resolved), "logout", FALSE, << >>)

LoginEnds ==
    \E p \in PromisesOf("login"), resolved \in BOOLEAN :
        CommitSession(loginEnds(AuthWorld, p, resolved), "login", FALSE, << >>)

LoadUserProfileEnds ==
    \E p \in PromisesOf("loadUserProfile"), loaded \in BOOLEAN :
        CommitSession(loadUserProfileEnds(AuthWorld, p, loaded), "loadUserProfile", FALSE, << >>)

\* the application calls AuthService
Login == CommitSession(login(AuthWorld), "login", FALSE, << >>)

Logout == CommitSession(logout(AuthWorld, "app", 0), "logout", FALSE, << >>)

UpdateToken == CommitSession(updateToken(AuthWorld, "app", 0), "updateToken", FALSE, << >>)

GetToken == CommitSession(getToken(AuthWorld), "getToken", FALSE, << >>)

GetUserRoles ==
    LET r == getUserRolesCall(AuthWorld, roleMappingCache)
    IN  CommitSession(r.world, "getUserRoles", FALSE, r.result)

HasRole ==
    \E role \in {ADMIN_ROLE, "r1"} :
        CommitSession(AuthWorld, "hasRole", FALSE,
                      IF hasRole(AuthWorld, roleMappingCache, role) THEN <<"true">> ELSE <<"false">>)

InitSession ==
    /\ stage \in Stages
    /\ RolesIdle
    /\ HttpIdle
    /\ PrefsIdle(EmptyStorage)
    /\ LogIdle
    /\ LoadIdle
    /\ keycloakEnv = CompleteKeycloakEnv
    /\ auth = InitializedAuth(stage)
    /\ authGuardCalls = << >>
    /\ SessionIdle

NextSession ==
    \/ SdkAuthSuccess
    \/ SdkAuthError
    \/ SdkAuthLogout
    \/ SdkTokenExpired
    \/ UpdateTokenEnds
    \/ LogoutEnds
    \/ LoginEnds
    \/ LoadUserProfileEnds
    \/ Login
    \/ Logout
    \/ UpdateToken
    \/ GetToken
    \/ GetUserRoles
    \/ HasRole

\* the session after init(), driven by the SDK and by the application
SessionSpec == InitSession /\ [][NextSession]_vars

NextUserRoles ==
    \/ SdkAuthSuccess
    \/ SdkAuthLogout
    \/ UpdateToken
    \/ UpdateTokenEnds
    \/ Logout
    \/ LogoutEnds
    \/ GetUserRoles
    \/ EnsureRolesLoaded
    \/ ClearCache
    \/ FetchEndsCurrent
    \/ FetchEndsStale

\* the user's roles while the session and the role index change
UserRolesSpec == InitSession /\ [][NextUserRoles]_vars

(* ------------------------------------------------------------------ *)
(* AppLoadingService: sources come and go                              *)
(* ------------------------------------------------------------------ *)
CommitLoading(sources, forceState) ==
    /\ loadingSources' = sources
    /\ forceLoadingState' = forceState
    /\ appIsLoading' = isLoadingOf(combinedSourcesLoading(sources), forceState)

RegisterSource ==
    /\ \E id \in SourceIds :
          CommitLoading(registerSource(loadingSources, id), forceLoadingState)
    /\ UNCHANGED <<roleVars, httpVars, prefVars, authVars, sessionVars, logVars>>

UnregisterSource ==
    /\ \E id \in SourceIds :
          CommitLoading(unregisterSource(loadingSources, id), forceLoadingState)
    /\ UNCHANGED <<roleVars, httpVars, prefVars, authVars, sessionVars, logVars>>

\* a source reports that it is loading or that it is done
SourceEmits ==
    /\ \E id \in SourceIds, value \in {"true", "false"} :
          CommitLoading(sourceNext(loadingSources, id, value), forceLoadingState)
    /\ UNCHANGED <<roleVars, httpVars, prefVars, authVars, sessionVars, logVars>>

ForceShow ==
    /\ CommitLoading(loadingSources, "true")
    /\ UNCHANGED <<roleVars, httpVars, prefVars, authVars, sessionVars, logVars>>

ForceHide ==
    /\ CommitLoading(loadingSources, "false")
    /\ UNCHANGED <<roleVars, httpVars, prefVars, authVars, sessionVars, logVars>>

ClearForce ==
    /\ CommitLoading(loadingSources, "null")
    /\ UNCHANGED <<roleVars, httpVars, prefVars, authVars, sessionVars, logVars>>

InitLoading ==
    /\ stage \in Stages
    /\ RolesIdle
    /\ HttpIdle
    /\ PrefsIdle(EmptyStorage)
    /\ AuthIdle(CompleteKeycloakEnv)
    /\ SessionIdle
    /\ LogIdle
    /\ loadingSources \in [SourceIds -> {NewSource(kind) : kind \in SourceKinds}]
    /\ forceLoadingState = "null"
    /\ appIsLoading = FALSE

NextLoading ==
    \/ RegisterSource
    \/ UnregisterSource
    \/ SourceEmits
    \/ ForceShow
    \/ ForceHide
    \/ ClearForce

\* the loading screen and its sources
LoadingSpec == InitLoading /\ [][NextLoading]_vars

(* ------------------------------------------------------------------ *)
(* RolesService.checkRouteAccess over the entries of the configuration  *)
(* ------------------------------------------------------------------ *)
\* faulty variant: the last matching entry wins, whatever its length
FindRequiredRolesLastMatch(entries, routePath, i, requiredRoles, longestMatch) ==
    LET matching == {j \in DOMAIN entries : StartsWith(routePath, entries[j].route)}
    IN IF matching = {} THEN requiredRoles
       ELSE entries[CHOOSE j \in matching : \A k \in matching : k <= j].roles

\* the for loop of checkRouteAccess over Object.entries(ROUTE_ROLE_MAPPINGS),
\* from entry i on: the requiredRoles it ends with
RECURSIVE FindRequiredRoles(_, _, _, _, _)
FindRequiredRoles(entries, routePath, i, requiredRoles, longestMatch) ==
    IF i > Len(entries) THEN requiredRoles
    ELSE IF StartsWith(routePath, entries[i].route) /\ Len(entries[i].route) > Len(longestMatch)
    THEN FindRequiredRoles(entries, routePath, i + 1, entries[i].roles, entries[i].route)
    ELSE FindRequiredRoles(entries, routePath, i + 1, requiredRoles, longestMatch)

\* checkRouteAccess with the injected mappings given as their entries
checkRouteAccessOf(entries, stg, index, keycloakRoles, routePath) ==
    LET requiredRoles == FindRequiredRoles(entries, routePath, 1, << >>, << >>)
    IN IF Len(requiredRoles) = 0 THEN TRUE
       ELSE hasAnyInternalRole(stg, index, keycloakRoles, requiredRoles)

\* the route keys and role lists an application may configure, and the paths
\* it navigates to
MaxRouteEntries == 3
ConfigRoutes == {<< >>, <<"/">>, <<"/", "a">>}
ConfigRoleLists == {<< >>, <<"admin">>, <<"r1">>}
RoutePaths == {<<"/">>, <<"/", "a">>, <<"/", "a", "b">>, <<"/", "b">>}

\* the entries of an object: no key twice
RouteEntryLists ==
    {e \in SeqsUpTo([route : ConfigRoutes, roles : ConfigRoleLists], MaxRouteEntries) :
        \A i, j \in DOMAIN e : i # j => e[i].route # e[j].route}

\* the role list every access check of the route inputs runs against
RouteRoleList ==
    << [name |-> "admin", keycloakRoles |-> <<"k1">>],
       [name |-> "r1", keycloakRoles |-> <<"k1", "k2">>] >>

RouteInputs ==
    {[kind |-> "route", entries |-> e, path |-> p, ks |-> ks, stg |-> sg] :
        e \in RouteEntryLists, p \in RoutePaths,
        ks \in {<< >>, <<"k1">>, <<"k2">>, <<"r1">>}, sg \in Stages}

\* the role service and everything else before anything happened
PureIdle ==
    /\ pOut = NoOutput
    /\ access = NoAccess
    /\ initialized = FALSE
    /\ isLoadingMappings = TRUE
    /\ internalRolesCache = NullCache
    /\ roleMappingCache = EmptyMap
    /\ storage = StorageNull
    /\ staleFetches = 0
    /\ ensureCalls = << >>
    /\ guardCalls = << >>
    /\ lastMap = NoMap
    /\ UiIdle

InitRoute ==
    /\ pIn \in RouteInputs
    /\ stage = pIn.stg
    /\ PureIdle

\* checkRouteAccess is called
EvalRoute ==
    /\ pIn.kind = "route" /\ pOut.kind = "none"
    /\ pOut' = [kind |-> "route",
                access |-> checkRouteAccessOf(pIn.entries, pIn.stg,
                                              buildRoleMappingCache(RouteRoleList),
                                              pIn.ks, pIn.path)]
    /\ UNCHANGED <<pIn, machineVars>>

\* checkRouteAccess on one configuration, path and user
RouteSpec == InitRoute /\ [][EvalRoute]_vars

(* ------------------------------------------------------------------ *)

(* MenuService.filterMenuItems                                         *)
(* ------------------------------------------------------------------ *)
\* a menu item: its roles object or none, whether routerLink, url and command are
\* set, and items: undefined or an array of menu items
NoMenuRoles == [k |-> "undefined", routeData |-> [roles |-> Undefined, allRoles |-> Undefined,
                                                  excludeRoles |-> Undefined]]
MenuRoles(data) == [k |-> "object", routeData |-> data]
NoItems == [k |-> "undefined", v |-> << >>]
Items(v) == [k |-> "array", v |-> v]

MenuItem(label, roles, routerLink, items) ==
    [label |-> label, roles |-> roles, routerLink |-> routerLink, url |-> FALSE,
     command |-> FALSE, items |-> items]

\* hasAccessToMenuItem(item, userRoles) with its first check, if (!menuItem.roles)
ItemHasAccess(item, userRoles) ==
    IF item.roles.k = "undefined" THEN TRUE
    ELSE hasAccessToMenuItem(MenuItemRoleOf(item.roles.routeData), userRoles)

\* the last filter of filterMenuItemsRecursive
HasChildrenOrRoute(item) ==
    ~(item.items.k = "undefined" /\ ~item.routerLink /\ ~item.url /\ ~item.command)

\* MenuService.filterMenuItemsRecursive: filter, map, filter
RECURSIVE filterMenuItemsRecursive(_, _)
filterMenuItemsRecursive(menuItems, userRoles) ==
    LET accessible == SelectSeq(menuItems, LAMBDA item : ItemHasAccess(item, userRoles))
        Mapped(item) ==
            IF item.items.k = "array" /\ Len(item.items.v) > 0
            THEN LET filteredChildren == filterMenuItemsRecursive(item.items.v, userRoles)
                 IN [item EXCEPT !.items = IF Len(filteredChildren) > 0
                                           THEN Items(filteredChildren) ELSE NoItems]
            ELSE item
        mapped == [i \in 1..Len(accessible) |-> Mapped(accessible[i])]
    IN SelectSeq(mapped, HasChildrenOrRoute)

\* MenuService.filterMenuItems: what it returns; authenticated is
\* authService.isAuthenticated(), userRoles what getCurrentUserRoles() returns
filterMenuItems(stg, authenticated, userRoles, menuItems) ==
    IF ~authenticated /\ stg # "MOCK" THEN << >>
    ELSE filterMenuItemsRecursive(menuItems, userRoles)

\* the menus that are filtered: leaves with and without a route, groups whose items
\* array is empty, groups of leaves, and a group of groups
AdminOnly == MenuRoles([roles |-> Arr(<<ADMIN_ROLE>>), allRoles |-> Undefined,
                        excludeRoles |-> Undefined])
MenuRoleChoices == {NoMenuRoles, AdminOnly}

MenuLeaves ==
    {MenuItem("leaf", r, TRUE, NoItems) : r \in MenuRoleChoices}
    \cup {MenuItem("text", NoMenuRoles, FALSE, NoItems),
          MenuItem("empty", NoMenuRoles, FALSE, Items(<< >>))}

MaxChildren == 2

MenuGroups ==
    {MenuItem("group", r, link, Items(c)) :
        r \in MenuRoleChoices, link \in BOOLEAN,
        c \in SeqsUpTo(MenuLeaves, MaxChildren) \ {<< >>}}

MenuTops ==
    {MenuItem("top", r, FALSE, Items(<<g>>)) : r \in MenuRoleChoices, g \in MenuGroups}

Menus ==
    {<<item>> : item \in MenuLeaves \cup MenuGroups \cup MenuTops}
    \cup {<<a, b>> : a \in MenuLeaves, b \in MenuLeaves}

MenuFilterInputs ==
    {[kind |-> "filter", stg |-> sg, authenticated |-> au, ks |-> ks, menuItems |-> m] :
        sg \in {"DEV", "MOCK"}, au \in BOOLEAN, ks \in {<< >>, <<"k1">>, <<"k2">>},
        m \in Menus}

\* the roles getCurrentUserRoles() returns for the user of the input
MenuUserRoles(in) ==
    getCurrentUserRoles(in.stg, NoCachedRoles, in.authenticated, << >>, in.ks,
                        buildRoleMappingCache(RouteRoleList))

InitMenuFilter ==
    /\ pIn \in MenuFilterInputs
    /\ stage = pIn.stg
    /\ PureIdle

\* filterMenuItems is called: what it returns and the menu it was given, which no
\* statement of the method writes to
EvalMenuFilter ==
    /\ pIn.kind = "filter" /\ pOut.kind = "none"
    /\ pOut' = [kind |-> "filter",
                items |-> filterMenuItems(pIn.stg, pIn.authenticated, MenuUserRoles(pIn),
                                          pIn.menuItems),
                menuItems |-> pIn.menuItems]
    /\ UNCHANGED <<pIn, machineVars>>

\* filterMenuItems on one menu and user
MenuFilterSpec == InitMenuFilter /\ [][EvalMenuFilter]_vars

(* ------------------------------------------------------------------ *)

(* apiUrlInterceptor and authInterceptor                               *)
(* ------------------------------------------------------------------ *)
EndsWith(s, p) == Len(p) <= Len(s) /\ SubSeq(s, Len(s) - Len(p) + 1, Len(s)) = p

\* s.substring(n)
substring(s, n) == SubSeq(s, n + 1, Len(s))

DOT_ASSETS_DIR == <<".", "/", "a", "s", "s", "e", "t", "s", "/">>
ASSETS_DIR == <<"/", "a", "s", "s", "e", "t", "s", "/">>
HTTP == <<"h", "t", "t", "p">>
API_PREFIX == <<"/", "a", "p", "i">>
JSON_SUFFIX == <<".", "j", "s", "o", "n">>

\* the URLs of the modelled application
BackendUrl == <<"h", "t", "t", "p", "s", ":", "/", "/", "b">>
KeycloakUrl == <<"h", "t", "t", "p", "s", ":", "/", "/", "k">>
TokenEndpointUrl == KeycloakUrl \o <<"/", "t">>
DotAssetUrl == <<".", "/", "a", "s", "s", "e", "t", "s", "/", "i">>
JsonUrl == <<"/", "a", "p", "i", "/", "m", ".", "j", "s", "o", "n">>
RelativeUrl == <<"/", "x">>
ChainUrls == {ApiUrl, AssetUrl, DotAssetUrl, JsonUrl, RelativeUrl, ExternalUrl, TokenEndpointUrl}

\* apiBaseUrlFactory
apiBaseUrlFactory(environment) ==
    IF environment.useProxy THEN << >> ELSE environment.apiUrl

\* an HttpRequest: its URL and its Authorization header
Request(url) == [url |-> url, Authorization |-> Absent]

\* apiUrlInterceptor: the request handed to next
apiUrlInterceptor(baseUrl, request) ==
    IF StartsWith(request.url, DOT_ASSETS_DIR) \/ StartsWith(request.url, HTTP)
    THEN request
    ELSE LET finalUrl == IF baseUrl # << >> /\ StartsWith(request.url, API_PREFIX)
                         THEN substring(request.url, 4)
                         ELSE request.url
         IN [request EXCEPT !.url = baseUrl \o finalUrl]

\* authInterceptor: the request handed to next; token is what getToken() yields
authInterceptor(stg, keycloakUrl, request, token) ==
    IF stg = "MOCK" THEN request
    ELSE IF /\ ~StartsWith(request.url, ASSETS_DIR)
            /\ ~EndsWith(request.url, JSON_SUFFIX)
            /\ ~(keycloakUrl # << >> /\ StartsWith(request.url, keycloakUrl))
    THEN IF token # "" THEN [request EXCEPT !.Authorization = "Bearer " \o token]
         ELSE request
    ELSE request

ChainInputs ==
    {[kind |-> "chain", url |-> u, environment |-> [useProxy |-> px, apiUrl |-> a],
      keycloakUrl |-> k, stg |-> sg, token |-> t] :
        u \in ChainUrls, px \in BOOLEAN, a \in {<< >>, BackendUrl},
        k \in {<< >>, KeycloakUrl}, sg \in Stages, t \in {"", "t1"}}

InitChain ==
    /\ pIn \in ChainInputs
    /\ pOut = NoOutput
    /\ stage = pIn.stg
    /\ access = NoAccess
    /\ initialized = FALSE
    /\ isLoadingMappings = TRUE
    /\ internalRolesCache = NullCache
    /\ roleMappingCache = EmptyMap
    /\ storage = StorageNull
    /\ staleFetches = 0
    /\ ensureCalls = << >>
    /\ guardCalls = << >>
    /\ lastMap = NoMap
    /\ UiIdle

\* a request passes apiUrlInterceptor and then authInterceptor
EvalChain ==
    /\ pIn.kind = "chain" /\ pOut.kind = "none"
    /\ LET baseUrl == apiBaseUrlFactory(pIn.environment)
           apiRequest == apiUrlInterceptor(baseUrl, Request(pIn.url))
       IN pOut' = [kind |-> "chain", baseUrl |-> baseUrl, apiRequest |-> apiRequest,
                   sent |-> authInterceptor(pIn.stg, pIn.keycloakUrl, apiRequest, pIn.token)]
    /\ UNCHANGED <<pIn, machineVars>>

\* the two interceptors on one request
ChainSpec == InitChain /\ [][EvalChain]_vars

(* ------------------------------------------------------------------ *)
(* The runtime configuration                                           *)
(* ------------------------------------------------------------------ *)
ConfigKeys == {"stage", "apiUrl", "logLevel"}

\* a configuration object: every key has its value, or Absent
EmptyConfig == [k \in ConfigKeys |-> Absent]

ConfigObjects ==
    {[stage |-> sg, apiUrl |-> a, logLevel |-> l] :
        sg \in {Absent, "prod", "MOCK"}, a \in {Absent, "https://b"}, l \in {Absent, "warn"}}

\* { ...a, ...b } of two configuration objects
SpreadConfig(a, b) == [k \in ConfigKeys |-> IF b[k] # Absent THEN b[k] ELSE a[k]]

BOOTSTRAP_CONFIG == [stage |-> "BOOTSTRAP", apiUrl |-> "", logLevel |-> "DEBUG"]

\* s?.toUpperCase() on the strings of the model
toUpperCase(s) ==
    CASE s = "prod" -> "PROD"
      [] s = "warn" -> "WARN"
      [] OTHER -> s

parseStage(stg) ==
    IF toUpperCase(stg) \in {"PROD", "SYST", "DEV", "MOCK", "ENTW", "INTG", "GATE"}
    THEN toUpperCase(stg) ELSE "DEV"

parseLogLevel(logLevel) ==
    IF toUpperCase(logLevel) \in {"DEBUG", "INFO", "WARN", "ERROR"}
    THEN toUpperCase(logLevel) ELSE "INFO"

\* EnvironmentService.updateFromRuntimeConfig: the new _environment
updateFromRuntimeConfig(runtimeConfig) ==
    [SpreadConfig(BOOTSTRAP_CONFIG, runtimeConfig) EXCEPT
        !.stage = parseStage(runtimeConfig.stage),
        !.logLevel = parseLogLevel(runtimeConfig.logLevel)]

\* a file or a storage item: missing, not JSON, or the text of an object
NoFile == [t |-> "missing", o |-> EmptyConfig]
BadFile == [t |-> "invalid", o |-> EmptyConfig]
File(o) == [t |-> "object", o |-> o]

\* checkDeveloperOverride: the configuration, or null; item is the value of
\* 'developer-environment-override' in session storage
checkDeveloperOverride(item) ==
    IF item.t = "object" THEN [null |-> FALSE, config |-> item.o, removed |-> FALSE]
    ELSE [null |-> TRUE, config |-> EmptyConfig, removed |-> item.t = "invalid"]

\* loadRuntimeConfig: the configuration it resolves to, unless it halts the start
\* (environment.json could not be fetched)
loadRuntimeConfig(item, base, local) ==
    LET developerOverride == checkDeveloperOverride(item)
    IN IF ~developerOverride.null THEN [t |-> "config", config |-> developerOverride.config]
       ELSE IF base.t # "object" THEN [t |-> "halt", config |-> EmptyConfig]
       ELSE IF local.t = "object" THEN [t |-> "config", config |-> SpreadConfig(base.o, local.o)]
       ELSE [t |-> "config", config |-> base.o]

\* appCoreEnvironmentFactory: the environment of EnvironmentService afterwards
appCoreEnvironmentFactory(item, base, local) ==
    LET config == loadRuntimeConfig(item, base, local)
    IN IF config.t = "config" THEN updateFromRuntimeConfig(config.config)
       ELSE BOOTSTRAP_CONFIG

ConfigInputs ==
    {[kind |-> "config", item |-> i, base |-> b, local |-> l] :
        i \in {NoFile, BadFile} \cup {File(o) : o \in ConfigObjects},
        b \in {NoFile} \cup {File(o) : o \in ConfigObjects},
        l \in {NoFile, BadFile} \cup {File(o) : o \in ConfigObjects}}

InitConfig ==
    /\ pIn \in ConfigInputs
    /\ pOut = NoOutput
    /\ stage = "DEV"
    /\ access = NoAccess
    /\ initialized = FALSE
    /\ isLoadingMappings = TRUE
    /\ internalRolesCache = NullCache
    /\ roleMappingCache = EmptyMap
    /\ storage = StorageNull
    /\ staleFetches = 0
    /\ ensureCalls = << >>
    /\ guardCalls = << >>
    /\ lastMap = NoMap
    /\ UiIdle

\* the application initializer runs
EvalConfig ==
    /\ pIn.kind = "config" /\ pOut.kind = "none"
    /\ pOut' = [kind |-> "config",
                loaded |-> loadRuntimeConfig(pIn.item, pIn.base, pIn.local),
                environment |-> appCoreEnvironmentFactory(pIn.item, pIn.base, pIn.local)]
    /\ UNCHANGED <<pIn, machineVars>>

\* the start of the application with its configuration files
ConfigSpec == InitConfig /\ [][EvalConfig]_vars

\* the requests passing through apiLoggingInterceptor
MaxRequests == 3

CommitLog(r, i) ==
    /\ apiLogs' = r.service
    /\ logged' = IF i > Len(logged) THEN Append(logged, r.call) ELSE [logged EXCEPT ![i] = r.call]
    /\ UNCHANGED <<roleVars, httpVars, prefVars, authVars, sessionVars, loadVars>>

\* a request reaches apiLoggingInterceptor
LogRequest ==
    /\ Len(logged) < MaxRequests
    /\ CommitLog(apiLoggingInterceptor(stage, apiLogs), Len(logged) + 1)

\* the HttpResponse event of an open request reaches the tap
LogResponse ==
    \E i \in DOMAIN logged :
        /\ logged[i].open
        /\ CommitLog(apiLoggingEnds(apiLogs, logged[i], "succeeded"), i)

\* the error of an open request reaches catchError
LogError ==
    \E i \in DOMAIN logged :
        /\ logged[i].open
        /\ CommitLog(apiLoggingEnds(apiLogs, logged[i], "failed"), i)

\* the developer clears the log view
ClearLogs ==
    /\ apiLogs' = clearLogs(apiLogs)
    /\ UNCHANGED <<roleVars, httpVars, prefVars, authVars, sessionVars, logged, loadVars>>

InitLog ==
    /\ stage \in {"DEV", "PROD"}
    /\ RolesIdle
    /\ HttpIdle
    /\ PrefsIdle(EmptyStorage)
    /\ AuthIdle(CompleteKeycloakEnv)
    /\ SessionIdle
    /\ LogIdle
    /\ LoadIdle

NextLog ==
    \/ LogRequest
    \/ LogResponse
    \/ LogError
    \/ ClearLogs

\* the API log and the requests that write to it
LogSpec == InitLog /\ [][NextLog]_vars

(* ------------------------------------------------------------------ *)
(* Claims                                                              *)
(* ------------------------------------------------------------------ *)
EnsureWaiting == \E i \in DOMAIN ensureCalls : ensureCalls[i] = "waiting"
EnsureRejected == \E i \in DOMAIN ensureCalls : ensureCalls[i] = "rejected"

\* C1: every promise returned by ensureRolesLoaded() is eventually resolved and
\* none is rejected, whatever getAvailableInternalRoles() and clearCache() calls
\* came before it, when every started provider fetch ends (FairSpec).
C1_EnsureResolves == (EnsureWaiting ~> ~EnsureWaiting) /\ []~EnsureRejected

GuardWaiting == \E i \in DOMAIN guardCalls : guardCalls[i].st = "waiting"
GuardsDecidedOnce ==
    \A i \in DOMAIN guardCalls : guardCalls[i].st = "done" /\ guardCalls[i].emits = 1

\* C2: outside the mock stage every canActivate call eventually emits exactly one
\* decision and completes, when every started provider fetch ends (FairSpec). The
\* claim covers navigations made before ensureRolesLoaded() was called; it is
\* stated here for the executions in which ensureRolesLoaded() has been called, so
\* that no refutation rests on role loading never being asked for.
C2_GuardDecides == (stage # "MOCK" /\ GuardWaiting /\ initialized) ~> GuardsDecidedOnce

\* C3: outside the mock stage canActivate emits no decision while the loading flag
\* is true: its map callback (which reads the user's roles and the role index) runs
\* only on an emission false of isLoadingMappings$, and at most once per call.
C3_GuardWaitsForLoading ==
    stage # "MOCK" =>
        \A i \in DOMAIN guardCalls :
            LET g == guardCalls[i]
            IN /\ g.emits <= 1
               /\ g.emits = 1 => (~g.sawLoading /\ g.st = "done" /\ g.decision # NoDecision)
               /\ g.emits = 0 => (g.st = "waiting" /\ g.decision = NoDecision)
               /\ ~(g.st = "waiting" /\ ~isLoadingMappings)

\* a guard that was subscribed while the flag was true and decided later
C3_Witness ==
    /\ stage # "MOCK"
    /\ \E i \in DOMAIN guardCalls :
          guardCalls[i].waited /\ guardCalls[i].st = "done" /\ guardCalls[i].emits = 1

\* the user roles that checkRouteDataRoles looks at, as a set
HeldRoles(stg, acc) ==
    (IF stg = "MOCK" THEN {ADMIN_ROLE} ELSE {}) \cup (IF acc.present THEN Range(acc.roles) ELSE {})

Listed(f) == IF f.k = "array" THEN Range(f.v) ELSE {}

\* C4: whenever the user holds a role listed in excludeRoles, the route data check
\* of RoleGuard denies with reason excluded-role, also when that role is listed in
\* roles or allRoles, and also in the mock stage.
C4_ExclusionWins ==
    (pOut.kind = "guard" /\ Listed(pIn.data.excludeRoles) \cap HeldRoles(pIn.stg, pIn.access) # {})
        => pOut.guard = UrlTree("access-denied", "excluded-role")

\* a held role that is excluded and required at once
C4_Witness ==
    /\ pOut.kind = "guard"
    /\ \E r \in HeldRoles(pIn.stg, pIn.access) :
          /\ r \in Listed(pIn.data.excludeRoles)
          /\ r \in Listed(pIn.data.roles)
          /\ r \in Listed(pIn.data.allRoles)
    /\ pOut.guard.reason = "excluded-role"

ExpectedRouteDataDecision(stg, data, acc) ==
    LET held == HeldRoles(stg, acc)
    IN IF Listed(data.excludeRoles) \cap held # {}
       THEN UrlTree("access-denied", "excluded-role")
       ELSE IF ~(Listed(data.allRoles) \subseteq held)
       THEN UrlTree("access-denied", "insufficient-roles")
       ELSE IF Listed(data.roles) # {} /\ Listed(data.roles) \cap held = {}
       THEN UrlTree("access-denied", "no-required-role")
       ELSE Grant

\* C5: the route data check grants iff no held role is excluded, allRoles is
\* missing, empty or wholly held, and roles is missing, empty or has a held role;
\* otherwise the reason is that of the first failing check in the order
\* excluded-role, insufficient-roles, no-required-role.
C5_RouteDataDecision ==
    pOut.kind = "guard" => pOut.guard = ExpectedRouteDataDecision(pIn.stg, pIn.data, pIn.access)

\* all three requirements fail at once and the exclusion is reported
C5_Witness ==
    /\ pOut.kind = "guard"
    /\ Listed(pIn.data.excludeRoles) \cap HeldRoles(pIn.stg, pIn.access) # {}
    /\ ~(Listed(pIn.data.allRoles) \subseteq HeldRoles(pIn.stg, pIn.access))
    /\ Listed(pIn.data.roles) # {}
    /\ Listed(pIn.data.roles) \cap HeldRoles(pIn.stg, pIn.access) = {}
    /\ Cardinality(Listed(pIn.data.allRoles) \cap HeldRoles(pIn.stg, pIn.access)) = 1
    /\ pOut.guard.reason = "excluded-role"

\* C6: RoleGuard checks a route's requirements against the same role set as
\* MenuService checks a menu item's: a route and a menu item with identical
\* requirements are allowed or denied together for the same user.
C6_GuardAgreesWithMenu ==
    pOut.kind = "menu" => ((pOut.guard = Grant) <=> pOut.menu)

\* C7: every value canActivate emits is true or a redirect to /dashboard carrying
\* an error parameter, never false; a call emits at most one value; outside the
\* mock stage an error raised in the pipe becomes the redirect error=guard_error
\* and the call does not fail.
C7_DenialIsRedirect ==
    \A i \in DOMAIN guardCalls :
        LET g == guardCalls[i]
        IN /\ g.emits <= 1
           /\ g.emits = 1 =>
                 \/ g.decision = Grant
                 \/ /\ g.decision.t = "UrlTree"
                    /\ g.decision.path = "/dashboard"
                    /\ g.decision.error # ""
           /\ stage # "MOCK" => g.st # "threw"
           /\ (stage # "MOCK" /\ g.emits = 1 /\ g.route.data.roles = Malformed
                  /\ Len(getRoles(access)) > 0)
                 => g.decision = UrlTree("guard_error", "")

\* a call whose check raised an error and that emitted the guard_error redirect
C7_Witness ==
    \E i \in DOMAIN guardCalls :
        /\ guardCalls[i].route.data.roles = Malformed
        /\ guardCalls[i].decision = UrlTree("guard_error", "")
        /\ guardCalls[i].waited

\* C8: mapKeycloakRolesToInternalRoles returns the same set of internal roles for
\* any two orderings of the same provider roles under one role index.
C8_MapOrderIndependent ==
    pOut.kind = "map" => Range(pOut.a) = Range(pOut.b)

\* two orderings whose result arrays differ in order and agree as sets
C8_Witness ==
    /\ pOut.kind = "map"
    /\ pIn.stg # "MOCK"
    /\ pIn.ks # pIn.perm
    /\ pOut.a # pOut.b
    /\ Cardinality(Range(pOut.a)) = 2

\* the internal roles the index gives for a set of provider roles
IndexUnion(index, ks) == UNION {Range(index[k]) : k \in Range(ks) \cap DOMAIN index}

\* C9: outside the mock stage a call of mapKeycloakRolesToInternalRoles returns
\* exactly the union of the index entries of the given provider roles and changes
\* neither the index, the loading flag, the cached role list, the session storage
\* nor the set of pending fetches.
C9_MapIsPureLookup ==
    [][(~lastMap.called /\ lastMap'.called) =>
          /\ UNCHANGED <<initialized, isLoadingMappings, internalRolesCache,
                         roleMappingCache, storage, staleFetches, ensureCalls, guardCalls>>
          /\ stage # "MOCK" => Range(lastMap'.out) = IndexUnion(roleMappingCache, lastMap'.in)]_vars

\* a lookup with a known and an unknown provider role on a loaded index
C9_Witness ==
    /\ lastMap.called
    /\ stage # "MOCK"
    /\ ~isLoadingMappings
    /\ Range(lastMap.in) \cap DOMAIN roleMappingCache # {}
    /\ Range(lastMap.in) \ DOMAIN roleMappingCache # {}
    /\ lastMap.out # << >>

\* the pairs (provider role, internal role) of the reverse index
IndexRelation(index) == UNION {{<<k, r>> : r \in Range(index[k])} : k \in DOMAIN index}

\* the pairs (provider role, internal role) a role list states
Inversion(roles) ==
    UNION {{<<k, roles[i].name>> : k \in Range(roles[i].keycloakRoles)} : i \in DOMAIN roles}

\* C10: whenever the loading flag is false, the reverse index is the inversion of
\* the role list that getAvailableInternalRoles() replays.
C10_IndexMatchesRoleList ==
    (~isLoadingMappings /\ internalRolesCache.st = "value")
        => IndexRelation(roleMappingCache) = Inversion(internalRolesCache.val)

\* C11: a clearCache() called while the role list loaded from session storage is
\* cached, and whose reload has settled (loading flag false, no earlier fetch left
\* pending), leaves nothing of the mappings cached before it: the role list
\* replayed is that of the new fetch or the fallback, and the session storage entry
\* is absent or holds the list the reload fetched, also when the reload failed.
C11_ClearDropsOldMappings ==
    [][(internalRolesCache.kind = "of" /\ ClearCache /\ ~isLoadingMappings' /\ staleFetches' = 0) =>
          /\ internalRolesCache'.kind = "fetch"
          /\ storage'.has =>
                (internalRolesCache'.st = "value" /\ storage'.roles = internalRolesCache'.val)]_vars

\* the call of registerError that a step makes, if it makes one
RegistersError == Len(errorLog') = Len(errorLog) + 1

\* whether the last call logged and the n - 1 calls before it, counting only the
\* calls after the first mark of them, all lie less than its window before it
WithinWindow(log, mark) ==
    LET e == log[Len(log)]
    IN /\ Len(log) - mark >= e.n
       /\ \A i \in DOMAIN log : i > Len(log) - e.n => e.t - log[i].t < e.w

\* what C12 says of a call, earlier calls counting when they came after the first
\* mark calls
EscalatesAtThreshold(mark) ==
    LET e == errorLog'[Len(errorLog')]
    IN /\ e.result <=> WithinWindow(errorLog', mark)
       /\ e.result => (bannerState'.isVisible /\ bannerState'.config.type = "error")
       /\ ~e.result => (bannerState'.isVisible = bannerState.isVisible
                          /\ bannerState'.config = bannerState.config)
       /\ (\A i \in DOMAIN errorLog : i > mark => e.t - errorLog[i].t >= e.w)
             => bannerState'.errorCount = 1

ErrorBannerVisible == bannerState.isVisible /\ bannerState.config.type = "error"

\* C13: while the error banner that escalation displayed stays visible,
\* errorInterceptor shows no toast for a further timeout or 5xx error.
C13_NoToastWhileBanner ==
    [][(ErrorBannerVisible /\ RegistersError /\ lastHttp'.kind = "error")
          => lastHttp'.toasts = << >>]_vars

(* C14: a value written with updatePreference or updateTheme is returned by      *)
(* getPreferences() after PreferencesService is constructed again over the same *)
(* storage, when the stored version is the current one                          *)
StoredVersionIsCurrent ==
    /\ localStorage[VERSION_KEY].has
    /\ localStorage[VERSION_KEY].text = Chars(NumberToString(PREFERENCES_VERSION))

Constructs == loads' = loads + 1

C14_PreferencesPersist ==
    [][(/\ Constructs
        /\ loads > 0
        /\ StoredVersionIsCurrent
        /\ prefsOp.op \in {"updatePreference", "updateTheme"}
        /\ prefsOp.writable) =>
            \A k \in prefsOp.keys : preferences'[k] = preferences[k]]_vars

(* C15: constructing PreferencesService over a storage whose version is absent  *)
(* or differs from PREFERENCES_VERSION leaves getPreferences() and the stored   *)
(* entry equal to defaultPreferences and the stored version equal to the        *)
(* current one, when the storage accepts the writes                             *)
StoredVersionDiffers ==
    \/ ~localStorage[VERSION_KEY].has
    \/ localStorage[VERSION_KEY].text # Chars(NumberToString(PREFERENCES_VERSION))

C15_MismatchResets ==
    [][(Constructs /\ StoredVersionDiffers /\ prefsOp'.writable) =>
          /\ preferences' = defaultPreferences
          /\ localStorage'[LOCAL_STORAGE_KEY] = [has |-> TRUE, text |-> ObjectText(defaultPreferences)]
          /\ localStorage'[VERSION_KEY] =
                [has |-> TRUE, text |-> Chars(NumberToString(PREFERENCES_VERSION))]]_vars

C15_Witness ==
    /\ prefsOp.op = "construct"
    /\ prefsOp.writable
    /\ prefsOp.before[VERSION_KEY] = [has |-> TRUE, text |-> Chars("1")]
    /\ prefsOp.before[LOCAL_STORAGE_KEY] = [has |-> TRUE, text |-> ObjectText(OldPreferences)]
    /\ preferences = defaultPreferences
    /\ localStorage[LOCAL_STORAGE_KEY].text = ObjectText(defaultPreferences)

(* C16: after apiInterceptor has handled a legacy response {status, result,     *)
(* session}, getSessionId() returns that session and the body passed on is      *)
(* result, also when no metadata was recorded before                            *)
LegacyResponseHandled ==
    /\ lastHttp.kind = "response"
    /\ lastHttp.request.url = ApiUrl
    /\ ~lastHttp.body.isNull
    /\ lastHttp.body.status # Absent
    /\ lastHttp.body.result # Absent

C16_LegacySessionRecorded ==
    LegacyResponseHandled =>
        /\ getSessionId(apiMetadata) = lastHttp.body.session
        /\ lastHttp.forwarded = lastHttp.body.result

(* C17: a {meta, data} response whose meta.stage is set and differs from the    *)
(* client's stage makes apiInterceptor navigate to /status/500 while meta is    *)
(* recorded and data passed on; without a stage or with the client's stage it   *)
(* does not navigate                                                            *)
CurrentFormatResponse ==
    /\ lastHttp.kind = "response"
    /\ ~lastHttp.body.isNull
    /\ lastHttp.body.meta.has
    /\ lastHttp.body.data # Absent

StageDiffers == lastHttp.body.meta.stage # Absent /\ lastHttp.body.meta.stage # stage

MismatchHandling ==
    /\ StageDiffers =>
          /\ lastHttp.nav = <<"/status/500">>
          /\ apiMetadata = Meta(lastHttp.body.meta.stage, lastHttp.body.meta.session)
          /\ lastHttp.forwarded = lastHttp.body.data
    /\ ~StageDiffers => lastHttp.nav = << >>

C17_StageMismatch_Original == CurrentFormatResponse => MismatchHandling

\* the same for the requests that apiInterceptor does not pass through untouched
Intercepted(url) ==
    ~(StartsWith(url, ASSETS_PREFIX) \/ StartsWith(url, HTTP_PREFIX) \/ StartsWith(url, HTTPS_PREFIX))

C17_StageMismatch ==
    (CurrentFormatResponse /\ Intercepted(lastHttp.request.url)) => MismatchHandling

C17_Witness ==
    /\ CurrentFormatResponse
    /\ Intercepted(lastHttp.request.url)
    /\ StageDiffers
    /\ lastHttp.nav = <<"/status/500">>
    /\ lastHttp.forwarded = "d"
    /\ ~apiMetadata.isNull

(* C18: for a request with the X-Suppress-Error-Toast header neither            *)
(* interceptor shows a toast, and unwrapping, recorded metadata, banner error   *)
(* registration and the redirects are those of the same exchange without the    *)
(* header                                                                       *)
WithoutHeader(request) == [request EXCEPT !.suppressToasts = FALSE]

\* an exchange is handled in this step; the exchange is the one lastHttp' tells
Exchange(kind) == bannerComponent' = bannerComponent /\ lastHttp'.kind = kind

SuppressedResponseAsPlain ==
    LET o == apiInterceptor(stage, apiMetadata, WithoutHeader(lastHttp'.request), lastHttp'.body)
    IN  /\ lastHttp'.toasts = << >>
        /\ apiMetadata' = o.metadata
        /\ lastHttp'.nav = o.nav
        /\ lastHttp'.unwrapped = o.unwrapped
        /\ lastHttp'.forwarded = (IF o.unwrapped = "no" THEN "body" ELSE o.body)

SuppressedErrorAsPlain ==
    LET o == errorInterceptor(bannerComponent, Banner, WithoutHeader(lastHttp'.request),
                              lastHttp'.error)
    IN  /\ lastHttp'.toasts = << >>
        /\ bannerState' = o.banner.state
        /\ autoHideTimer' = o.banner.timer
        /\ errorLog' = o.banner.log
        /\ lastHttp'.nav = o.nav
        /\ lastHttp'.thrown = o.thrown

C18_HeaderSuppressesToastsOnly ==
    [][/\ (Exchange("response") /\ lastHttp'.request.suppressToasts) => SuppressedResponseAsPlain
       /\ (Exchange("error") /\ lastHttp'.request.suppressToasts) => SuppressedErrorAsPlain]_vars

\* a 403 with the header while no banner is shown: redirected, registered nothing, no toast
C18_Witness ==
    /\ lastHttp.kind = "error"
    /\ lastHttp.request.suppressToasts
    /\ lastHttp.error.status = 403
    /\ ~isStatusPageError(lastHttp.error)
    /\ ~bannerState.isVisible
    /\ lastHttp.nav = <<"/status/403">>
    /\ lastHttp.toasts = << >>

(* C19: an HTTP error response with status 403 makes errorInterceptor navigate  *)
(* to /status/403 and rethrow the error; when the failing URL contains          *)
(* /status/403 or /status/500 it only rethrows: no toast, no navigation, no     *)
(* banner registration                                                          *)
FromStatusPage(url) == Contains(url, STATUS_403) \/ Contains(url, STATUS_500)

C19_ForbiddenRedirects ==
    [][(Exchange("error") /\ lastHttp'.error.t = "http" /\ lastHttp'.error.status = 403) =>
          /\ lastHttp'.thrown = "error"
          /\ IF FromStatusPage(lastHttp'.error.url)
             THEN /\ lastHttp'.nav = << >>
                  /\ lastHttp'.toasts = << >>
                  /\ errorLog' = errorLog
                  /\ bannerState' = bannerState
             ELSE lastHttp'.nav = <<"/status/403">>]_vars

C19_Witness ==
    /\ lastHttp.kind = "error"
    /\ lastHttp.error = HttpErrorResponse(403, StatusPageUrl)
    /\ ~lastHttp.request.suppressToasts
    /\ ~bannerState.isVisible
    /\ lastHttp.nav = << >>
    /\ lastHttp.toasts = << >>
    /\ lastHttp.thrown = "error"

(* C20: outside mock mode AuthGuard emits nothing before AuthService is         *)
(* initialized, and what it emits is the redirect to /status/403 exactly when   *)
(* the provider's settings are incomplete or the SDK initialisation failed      *)
ProviderUnusable == ~keycloakConfigPresent(keycloakEnv) \/ auth.sdk = "failed"

C20_GuardRedirectsWhenProviderUnusable ==
    stage # "MOCK" =>
        \A i \in DOMAIN authGuardCalls :
            authGuardCalls[i].st = "done" =>
                /\ auth.initializedSource
                /\ (authGuardCalls[i].emitted = "/status/403") <=> ProviderUnusable

(* C21: for each token-expired event AuthService emits onTokenExpired$ once and  *)
(* calls updateToken once; when that update fails it calls login once, and      *)
(* nothing else is called for the event                                         *)
C21_OneUpdateThenRelogin ==
    \A i \in DOMAIN expiries :
        /\ expiries[i].emits = 1
        /\ expiries[i].calls = IF expiries[i].update = "rejected"
                               THEN <<"updateToken", "login">>
                               ELSE <<"updateToken">>

(* C25: isAuthenticated$, userProfile$ and accessToken$ change only in the      *)
(* handlers of the SDK's events (and in the profile load they start); login,    *)
(* logout, updateToken, getToken, hasRole and getUserRoles leave them unchanged *)
SessionState == <<sess.isAuthenticated, sess.userProfile, sess.accessToken>>

C25_OnlyCallbacksChangeSession ==
    [][SessionState' # SessionState =>
          (lastAuthOp'.callback \/ lastAuthOp'.name = "loadUserProfile")]_vars

(* C28: outside the mock stage getUserRoles() returns what                       *)
(* mapKeycloakRolesToInternalRoles gives for the realm and client roles of the  *)
(* current token under the current role index                                   *)
CurrentTokenRoles == tokenParsed(kc.token).realm \o tokenParsed(kc.token).client

C28_UserRolesAreCurrent ==
    stage # "MOCK" =>
        getUserRolesCall(AuthWorld, roleMappingCache).result =
            mapKeycloakRolesToInternalRoles(World, CurrentTokenRoles).result

(* C29: whichever way AuthService.init() ends, isInitialized$ is true            *)
(* afterwards, and no AuthGuard call is left waiting                            *)
InitEnded == auth.pc \in {"returned", "rejected"}

C29_InitEndsInitialized ==
    InitEnded =>
        /\ auth.initializedSource
        /\ \A i \in DOMAIN authGuardCalls : authGuardCalls[i].st = "done"

\* the provider fetches that were started and have not ended
FetchesInFlight ==
    staleFetches + (IF internalRolesCache.kind = "fetch" /\ internalRolesCache.st = "pending"
                    THEN 1 ELSE 0)

(* C27: isLoadingMappings$ is false only when no provider fetch is in flight     *)
C27_LoadingFalseOnlyWhenIdle == ~isLoadingMappings => FetchesInFlight = 0

\* a step in which ensureRolesLoaded was called
EnsureCalled == Len(ensureCalls') = Len(ensureCalls) + 1

\* a step in which a provider fetch was subscribed for internalRolesCache$
FetchStarted == internalRolesCache.kind = "null" /\ internalRolesCache'.kind = "fetch"

(* C30: the first ensureRolesLoaded() uses a non-empty role list of session     *)
(* storage as it is, without calling the provider, and otherwise starts exactly *)
(* one provider fetch; a later ensureRolesLoaded() starts none                  *)
C30_FirstEnsureLoadsOnce ==
    [][EnsureCalled =>
          IF initialized
          THEN /\ internalRolesCache' = internalRolesCache
               /\ FetchesInFlight' = FetchesInFlight
          ELSE IF storage.has /\ Len(storage.roles) > 0
          THEN /\ internalRolesCache' = OfCache(storage.roles)
               /\ roleMappingCache' = buildRoleMappingCache(storage.roles)
               /\ ~isLoadingMappings'
               /\ FetchesInFlight' = FetchesInFlight
          ELSE FetchStarted]_vars

\* the ids addEntry has handed out so far
UsedIds == {logged[i].logEntry.id : i \in DOMAIN logged} \ {NoLogEntry.id}

\* a step in which a request entered apiLoggingInterceptor
RequestLogged == Len(logged') = Len(logged) + 1

(* C24: nothing is recorded in stage PROD; otherwise each request adds exactly  *)
(* one entry, 'pending' and with an id never used before, also after            *)
(* clearLogs(); an entry changes its status only from 'pending' to 'succeeded'  *)
(* or 'failed'; and no update puts back an entry that clearLogs() removed       *)
C24_LogEntries ==
    [][/\ isProduction(stage) => apiLogs' = NewApiLogs
       /\ (RequestLogged /\ ~isProduction(stage)) =>
             /\ Len(apiLogs'.logs) = Len(apiLogs.logs) + 1
             /\ Tail(apiLogs'.logs) = apiLogs.logs
             /\ Head(apiLogs'.logs).status = "pending"
             /\ Head(apiLogs'.logs).id \notin UsedIds \cup LogIds(apiLogs)
       /\ ~RequestLogged => LogIds(apiLogs') \subseteq LogIds(apiLogs)
       /\ \A i \in DOMAIN apiLogs.logs : \A j \in DOMAIN apiLogs'.logs :
             (apiLogs.logs[i].id = apiLogs'.logs[j].id
                /\ apiLogs.logs[i].status # apiLogs'.logs[j].status) =>
                   /\ apiLogs.logs[i].status = "pending"
                   /\ apiLogs'.logs[j].status \in {"succeeded", "failed"}]_vars

\* after clearLogs(), the update of a cleared request came late, another request
\* got a fresh id and was updated
C24_Witness ==
    /\ \E i \in DOMAIN logged : logged[i].missed
    /\ \E j \in DOMAIN apiLogs.logs :
          apiLogs.logs[j].status = "failed" /\ apiLogs.logs[j].id > 0

\* an absolute URL
IsAbsoluteUrl(u) == StartsWith(u, HTTP_PREFIX) \/ StartsWith(u, HTTPS_PREFIX)

\* the URL of an asset
IsAssetUrl(u) == StartsWith(u, DOT_ASSETS_DIR) \/ StartsWith(u, ASSETS_DIR)

(* C23: apiUrlInterceptor leaves absolute URLs and asset URLs (./assets/...   *)
(* and /assets/...) unchanged; every other URL u is sent as baseUrl followed  *)
(* by u, without a leading '/api' of u exactly when baseUrl is not empty      *)
C23_UrlRewrite ==
    pOut.kind = "chain" =>
        pOut.apiRequest.url =
            IF IsAbsoluteUrl(pIn.url) \/ IsAssetUrl(pIn.url) THEN pIn.url
            ELSE IF pOut.baseUrl # << >> /\ StartsWith(pIn.url, API_PREFIX)
            THEN pOut.baseUrl \o substring(pIn.url, 4)
            ELSE pOut.baseUrl \o pIn.url

\* a request that must not carry the token: an asset, a .json file, or a
\* request to the identity provider
IsTokenFree(u, keycloakUrl) ==
    \/ StartsWith(u, ASSETS_DIR)
    \/ EndsWith(u, JSON_SUFFIX)
    \/ (keycloakUrl # << >> /\ StartsWith(u, keycloakUrl))

(* C22: behind the URL rewrite, no request for an asset, a .json file or the  *)
(* identity provider leaves with an Authorization header, whatever the API    *)
(* base URL; in mock mode no request has one; every other request has         *)
(* 'Bearer <token>' exactly when getToken() yields a non-empty token          *)
C22_TokenOnlyForApi ==
    pOut.kind = "chain" =>
        pOut.sent.Authorization =
            IF pIn.stg = "MOCK" \/ IsTokenFree(pIn.url, pIn.keycloakUrl) \/ pIn.token = ""
            THEN Absent
            ELSE "Bearer " \o pIn.token

(* C26: the runtime configuration is environment.json overlaid with           *)
(* environment.local.json (when it exists), overlaid with the developer       *)
(* override of session storage (when there is one)                            *)
C26_ConfigOverlay ==
    (pOut.kind = "config" /\ pIn.base.t = "object") =>
        LET local == IF pIn.local.t = "object" THEN pIn.local.o ELSE EmptyConfig
            override == IF pIn.item.t = "object" THEN pIn.item.o ELSE EmptyConfig
            expected == SpreadConfig(SpreadConfig(pIn.base.o, local), override)
        IN /\ pOut.loaded = [t |-> "config", config |-> expected]
           /\ pOut.environment = updateFromRuntimeConfig(expected)

\* a step in which the provider fetch behind internalRolesCache$ failed: the
\* observable now replays the fallback list
FetchFailed ==
    /\ internalRolesCache' = FetchCache("value", getFallbackRoles)
    /\ internalRolesCache' # internalRolesCache

(* C31: a failed role fetch writes nothing to session storage, and unless     *)
(* another load filled the index, in non-mock mode no provider role set maps  *)
(* to an internal role afterwards: hasInternalRole and isAdmin are false      *)
C31_FallbackGrantsNothing ==
    [][FetchFailed =>
          /\ storage' = storage
          /\ (roleMappingCache = EmptyMap /\ stage # "MOCK") =>
                \A ks \in KcRoleSeqs :
                    /\ MapResult(stage, roleMappingCache', ks) = << >>
                    /\ ~isAdmin(stage, roleMappingCache', ks)
                    /\ \A r \in {"admin", "r1"} :
                          ~hasInternalRole(stage, roleMappingCache', ks, r)]_vars

\* the fallback list is replayed, the loading flag is false and a caller waits
\* for nothing
C31_Witness ==
    /\ stage # "MOCK"
    /\ internalRolesCache = FetchCache("value", getFallbackRoles)
    /\ roleMappingCache = EmptyMap
    /\ storage = StorageNull
    /\ ~isLoadingMappings
    /\ Len(ensureCalls) > 0

\* the canActivate calls that emit in this step
DecidesNow(i) ==
    /\ guardCalls'[i].st = "done"
    /\ (i \in DOMAIN guardCalls => guardCalls[i].st # "done")

(* C32: in non-mock mode RoleGuard grants iff the user has a provider role,   *)
(* the route data check passes and checkRouteAccess passes for the URL; a     *)
(* user without roles is redirected with error=access_denied_no_roles, also   *)
(* to a route without any requirement                                         *)
C32_GrantIffAllChecksPass ==
    [][\A i \in DOMAIN guardCalls' :
          (stage # "MOCK" /\ DecidesNow(i)) =>
             LET g == guardCalls'[i]
                 userRoles == getRoles(access)
             IN /\ g.decision = Grant <=>
                      /\ Len(userRoles) > 0
                      /\ checkRouteDataRoles(stage, g.route.data, access) = Grant
                      /\ checkRouteAccess(stage, roleMappingCache', userRoles, g.route.url)
                /\ Len(userRoles) = 0 =>
                      g.decision = UrlTree("access_denied_no_roles", "")]_vars

\* a user without roles was sent away from the route that requires nothing
C32_Witness ==
    /\ stage # "MOCK"
    /\ getRoles(access) = << >>
    /\ \E i \in DOMAIN guardCalls :
          /\ guardCalls[i].st = "done"
          /\ guardCalls[i].route.url = <<"/">>
          /\ guardCalls[i].decision = UrlTree("access_denied_no_roles", "")

\* the roles of the longest entry among those of the set matching: the entry
\* that decides
DecidingRoles(entries, matching) ==
    IF matching = {} THEN << >>
    ELSE entries[CHOOSE j \in matching :
                    \A k \in matching : Len(entries[k].route) <= Len(entries[j].route)].roles

\* what the longest-prefix rule gives when the entries of matching count
LongestPrefixRule(matching) ==
    LET roles == DecidingRoles(pIn.entries, matching)
        mapped == MapResult(pIn.stg, buildRoleMappingCache(RouteRoleList), pIn.ks)
    IN \/ matching = {}
       \/ roles = << >>
       \/ \E i \in DOMAIN roles : roles[i] \in Range(mapped)

(* C33 as stated: checkRouteAccess decides by the role list of the longest    *)
(* configured route that is a string prefix of the path                        *)
C33_LongestPrefix_Original ==
    pOut.kind = "route" =>
        pOut.access =
            LongestPrefixRule({j \in DOMAIN pIn.entries :
                                  StartsWith(pIn.path, pIn.entries[j].route)})

(* C33: checkRouteAccess decides by the role list of the longest non-empty    *)
(* configured route that is a string prefix of the path: access iff no such   *)
(* route, or its list is empty, or the mapped internal roles contain one of   *)
(* its roles; the order of the entries does not matter                        *)
C33_LongestPrefix ==
    pOut.kind = "route" =>
        /\ pOut.access =
              LongestPrefixRule({j \in DOMAIN pIn.entries :
                                    /\ pIn.entries[j].route # << >>
                                    /\ StartsWith(pIn.path, pIn.entries[j].route)})
        /\ \A e \in Orderings(pIn.entries) :
              checkRouteAccessOf(e, pIn.stg, buildRoleMappingCache(RouteRoleList),
                                 pIn.ks, pIn.path) = pOut.access

\* a shorter matching route asks for a role the user lacks, the longest one
\* for a role the user has, and the shorter one comes later in the entries
C33_Witness ==
    /\ pOut.kind = "route"
    /\ pOut.access
    /\ pIn.stg = "DEV"
    /\ pIn.path = <<"/", "a", "b">>
    /\ pIn.ks = <<"k2">>
    /\ pIn.entries = << [route |-> <<"/", "a">>, roles |-> <<"r1">>],
                        [route |-> <<"/">>, roles |-> <<"admin">>] >>

\* a step in which errorInterceptor handled a failed request
HttpErrorStep == lastHttp'.kind = "error" /\ (lastHttp' # lastHttp \/ errorLog' # errorLog)

\* the error came from one of the status pages
ErrorFromStatusPage(e) == e.t = "http" /\ FromStatusPage(e.url)

\* a timeout, or a response with a status of 500 or more
CountsAsBackendError(e) == e.t = "timeout" \/ (e.t = "http" /\ e.status >= 500)

ClientError(e) == e.t = "http" /\ e.status >= 400 /\ e.status < 500

BannerActive == bannerComponent /\ bannerState.isVisible

(* C34 as stated: only timeouts and 5xx are registered; a 4xx never counts    *)
(* and its toast is shown exactly when no banner is active and toasts are not *)
(* suppressed; without a banner component every timeout and 5xx shows a toast *)
(* and nothing escalates                                                      *)
C34_ErrorsCounted_Original ==
    [][HttpErrorStep =>
          LET e == lastHttp'.error
          IN /\ lastHttp'.registered => CountsAsBackendError(e)
             /\ ClientError(e) =>
                   /\ ~lastHttp'.registered /\ bannerState' = bannerState
                   /\ lastHttp'.toasts # << >> <=>
                         (~BannerActive /\ ~lastHttp'.request.suppressToasts)
             /\ (~bannerComponent /\ CountsAsBackendError(e)) =>
                   /\ lastHttp'.toasts # << >>
                   /\ ~lastHttp'.registered /\ bannerState' = bannerState]_vars

(* C34: errors from the status pages are passed on untouched; of the others   *)
(* exactly the timeouts and 5xx are registered while a banner component is    *)
(* there; a 4xx never counts and its toast is shown exactly when no banner is *)
(* active and toasts are not suppressed; without a banner component a timeout *)
(* or 5xx shows a toast unless toasts are suppressed, and nothing escalates   *)
C34_ErrorsCounted ==
    [][HttpErrorStep =>
          LET e == lastHttp'.error
          IN /\ lastHttp'.registered <=>
                   (bannerComponent /\ CountsAsBackendError(e) /\ ~ErrorFromStatusPage(e))
             /\ ErrorFromStatusPage(e) => lastHttp'.toasts = << >> /\ bannerState' = bannerState
             /\ (ClientError(e) /\ ~ErrorFromStatusPage(e)) =>
                   /\ bannerState' = bannerState
                   /\ lastHttp'.toasts # << >> <=>
                         (~BannerActive /\ ~lastHttp'.request.suppressToasts)
             /\ (~bannerComponent /\ CountsAsBackendError(e) /\ ~ErrorFromStatusPage(e)) =>
                   /\ lastHttp'.toasts # << >> <=> ~lastHttp'.request.suppressToasts
                   /\ bannerState' = bannerState]_vars

\* a 404 while the error banner is up: no toast, and the count stays
C34_Witness ==
    /\ lastHttp.kind = "error"
    /\ lastHttp.error = HttpErrorResponse(404, ApiUrl)
    /\ ~lastHttp.request.suppressToasts
    /\ lastHttp.toasts = << >>
    /\ BannerActive
    /\ bannerState.errorCount = DEFAULT_ERROR_THRESHOLD

(* ------------------------------------------------------------------ *)
(* C35: the defaults of an error banner                                *)
(* ------------------------------------------------------------------ *)
\* an error banner is on display; no caller of ShowSpec passes autoHide,
\* autoHideTimeout or closable
ErrorBannerShown == bannerState.isVisible /\ bannerState.config.type = "error"

\* C35: an error banner shown by a caller that gave no autoHide, autoHideTimeout or
\* closable setting has the defaults of the error type (auto-hide after 60000 ms,
\* closable) and its auto-hide timer is pending, whether it was shown with show(),
\* with showError() or by the escalation of registerError()
C35_ErrorBannerDefaults ==
    ErrorBannerShown =>
        /\ bannerState.config.autoHide = Val(1)
        /\ bannerState.config.autoHideTimeout = Val(60000)
        /\ bannerState.config.closable = Val(1)
        /\ autoHideTimer # NoTimer

(* ------------------------------------------------------------------ *)
(* C36: one auto-hide timer                                            *)
(* ------------------------------------------------------------------ *)
\* the only timer that can be pending is the one of the handle autoHideTimer
OneTimerPending ==
    /\ Cardinality(timerQueue) <= 1
    /\ timerQueue = (IF autoHideTimer = NoTimer THEN {} ELSE {autoHideTimer})

\* a step that sets a timer sets it for the banner it shows, and no other is left
TimerIsOfShownBanner ==
    (timerQueue' \ timerQueue # {}) =>
        /\ bannerState'.isVisible
        /\ TruthyField(bannerState'.config.autoHide)
        /\ timerQueue' = {now + bannerState'.config.autoHideTimeout.v}

\* hide(), called by the application, the close button or the timer
HideStep == Hide \/ AutoHideFires

\* hide() and the destruction of the component leave no timer; hide() resets the count
HideResets ==
    /\ (HideStep \/ NgOnDestroy) => (timerQueue' = {} /\ autoHideTimer' = NoTimer)
    /\ HideStep =>
          /\ ~bannerState'.isVisible
          /\ bannerState'.errorCount = 0
          /\ bannerState'.errorTimestamps = << >>

\* C36: at most one auto-hide timer is pending at any time, the one set when the banner
\* on display was shown: showing a banner cancels the timer of the previous one, hide()
\* and ngOnDestroy cancel it, and every hide() resets the error count and the error
\* timestamps to empty
C36_OneAutoHideTimer ==
    [](OneTimerPending) /\ [][TimerIsOfShownBanner /\ HideResets]_vars

\* a banner shown after time has passed is on display with its own timer pending
C36_Witness ==
    /\ bannerState.isVisible
    /\ now > 0
    /\ autoHideTimer = now + 5000
    /\ timerQueue = {autoHideTimer}

(* ------------------------------------------------------------------ *)
(* C38: updatePreference changes one key                               *)
(* ------------------------------------------------------------------ *)
\* updatePreference was called in this step
UpdatePreferenceStep == prefsOp'.op = "updatePreference"

\* the argument pair of the call
UpdatedPair == CHOOSE kv \in PreferenceUpdates : kv[1] \in prefsOp'.keys

\* C38: updatePreference(key, value) changes exactly that key and leaves every other
\* preference unchanged; when the local-storage write succeeds the new preferences are
\* stored and emitted on preferences$, and when it fails the preferences in memory, the
\* storage and the stream stay as they were
C38_UpdateChangesOneKey ==
    [][UpdatePreferenceStep =>
          IF prefsOp'.writable
          THEN /\ preferences' = [preferences EXCEPT ![UpdatedPair[1]] = UpdatedPair[2]]
               /\ localStorage' =
                     [localStorage EXCEPT ![LOCAL_STORAGE_KEY] =
                                             [has |-> TRUE, text |-> ObjectText(preferences')]]
               /\ prefsOp'.emitted = <<preferences'>>
          ELSE /\ preferences' = preferences
               /\ localStorage' = localStorage
               /\ prefsOp'.emitted = << >>]_vars

\* a second key was updated and the first update is still there
C38_Witness ==
    /\ prefsOp.op = "updatePreference"
    /\ prefsOp.writable
    /\ prefsOp.keys = {"scale"}
    /\ preferences = [defaultPreferences EXCEPT !["scale"] = "16", !["language"] = "de"]
    /\ localStorage[LOCAL_STORAGE_KEY].text = ObjectText(preferences)

(* ------------------------------------------------------------------ *)
(* C37: isLoading$ follows the registered sources                      *)
(* ------------------------------------------------------------------ *)
\* the source is registered and its most recent emission is not false
ReportsLoading(id) ==
    loadingSources[id].registered /\ loadingSources[id].reported # "false"

SourcesDecide ==
    forceLoadingState = "null" => (appIsLoading = (\E id \in SourceIds : ReportsLoading(id)))

ForceOverrides ==
    /\ forceLoadingState = "true" => appIsLoading
    /\ forceLoadingState = "false" => ~appIsLoading

\* registerSource or unregisterSource was called for id
Reregisters(id) ==
    \/ loadingSources'[id].registered # loadingSources[id].registered
    \/ loadingSources' = registerSource(loadingSources, id)

\* the sources that reported false and stay registered are not taken as loading
OthersStayDone(id) ==
    \A other \in SourceIds \ {id} :
        (/\ loadingSources[other].registered
         /\ loadingSources[other].reported = "false"
         /\ ~loadingSources[other].latest) => ~loadingSources'[other].latest

\* C37: with no forced state isLoading$ is true exactly when a registered source is
\* loading by its most recent emission (a source that never emitted counts as loading)
\* and false when none is registered; forceShow and forceHide override this until
\* clearForce; registering or unregistering a source never turns another source that
\* reported false back into loading
C37_LoadingFollowsSources ==
    /\ [](SourcesDecide /\ ForceOverrides)
    /\ [][\A id \in SourceIds : Reregisters(id) => OthersStayDone(id)]_vars

(* ------------------------------------------------------------------ *)
(* C39: the filtered menu                                              *)
(* ------------------------------------------------------------------ *)
\* every item of the list, at any depth, passes its own role check (so each item is
\* below ancestors that pass theirs) and is a route or has a visible child
RECURSIVE AllVisible(_, _)
AllVisible(menuItems, userRoles) ==
    \A i \in DOMAIN menuItems :
        /\ ItemHasAccess(menuItems[i], userRoles)
        /\ \/ menuItems[i].routerLink \/ menuItems[i].url \/ menuItems[i].command
           \/ menuItems[i].items.k = "array" /\ Len(menuItems[i].items.v) > 0
        /\ AllVisible(menuItems[i].items.v, userRoles)

\* C39: filterMenuItems returns the empty list for a user who is not authenticated
\* outside the mock stage; otherwise every item it returns, at any depth, satisfies its
\* role requirement as do its ancestors, no parent without visible child and without
\* routerLink, url or command is returned, and the menu given is not modified
C39_FilteredMenu ==
    pOut.kind = "filter" =>
        /\ (~pIn.authenticated /\ pIn.stg # "MOCK") => pOut.items = << >>
        /\ AllVisible(pOut.items, MenuUserRoles(pIn))
        /\ pOut.menuItems = pIn.menuItems

====
